---- MODULE Spec2Model ----
(***************************************************************************)
(* Voice-call campaign subsystem of lead-generator: BlandAIService         *)
(* (compliance gate + call dispatcher), startCallCampaign (orchestrator)   *)
(* and WebhookServer (ingester + action router).                           *)
(*                                                                         *)
(* JavaScript strings whose characters matter (phone numbers, HH:MM call   *)
(* hours) are sequences of one-character strings; null / undefined is the  *)
(* sequence Null.  JavaScript numbers that can be NaN are records          *)
(* [nan, v].                                                               *)
(***************************************************************************)
EXTENDS Integers, Sequences, FiniteSets, TLC

(***************************************************************************)
(* Bounds of the model                                                     *)
(***************************************************************************)
MaxContacts == 2
MaxWebhooks == 1

(***************************************************************************)
(* Strings and numbers                                                     *)
(***************************************************************************)
Null == <<"null">>

Digits == {"0", "1", "2", "3", "4", "5", "6", "7", "8", "9"}

DigitVal ==
  ("0" :> 0) @@ ("1" :> 1) @@ ("2" :> 2) @@ ("3" :> 3) @@ ("4" :> 4) @@
  ("5" :> 5) @@ ("6" :> 6) @@ ("7" :> 7) @@ ("8" :> 8) @@ ("9" :> 9)

DigitChar == <<"0", "1", "2", "3", "4", "5", "6", "7", "8", "9">>

NaN == [nan |-> TRUE, v |-> 0]

Num(n) == [nan |-> FALSE, v |-> n]

\* a * b, a + b and a >= b of JavaScript numbers: NaN is absorbing, and
\* every comparison with NaN is false
JsMul(a, b) == IF a.nan \/ b.nan THEN NaN ELSE Num(a.v * b.v)

JsAdd(a, b) == IF a.nan \/ b.nan THEN NaN ELSE Num(a.v + b.v)

JsGeq(a, b) == ~a.nan /\ ~b.nan /\ a.v >= b.v

JsLeq(a, b) == ~a.nan /\ ~b.nan /\ a.v <= b.v

RECURSIVE DecimalValue(_)
DecimalValue(s) ==
  IF s = <<>> THEN 0
  ELSE 10 * DecimalValue(SubSeq(s, 1, Len(s) - 1)) + DigitVal[s[Len(s)]]

\* Number(token): '' is 0, a digit string its value, anything else NaN
JsNumber(tok) ==
  IF \A i \in 1..Len(tok) : tok[i] \in Digits
  THEN Num(DecimalValue(tok))
  ELSE NaN

\* parseInt(token) of a formatToParts value: leading digits, NaN if none
RECURSIVE LeadingDigits(_)
LeadingDigits(s) ==
  IF s = <<>> \/ s[1] \notin Digits THEN <<>>
  ELSE <<s[1]>> \o LeadingDigits(Tail(s))

JsParseInt(tok) ==
  IF LeadingDigits(tok) = <<>> THEN NaN
  ELSE Num(DecimalValue(LeadingDigits(tok)))

\* s.split(':')
RECURSIVE SplitColon(_)
SplitColon(s) ==
  IF \A i \in 1..Len(s) : s[i] # ":" THEN <<s>>
  ELSE LET k == CHOOSE i \in 1..Len(s) :
                  s[i] = ":" /\ \A j \in 1..(i - 1) : s[j] # ":"
       IN <<SubSeq(s, 1, k - 1)>> \o SplitColon(SubSeq(s, k + 1, Len(s)))

\* element i of an array of numbers, undefined (NaN in arithmetic) past the end
ArrayAt(arr, i) == IF i <= Len(arr) THEN arr[i] ELSE NaN

StartsWith(s, c) == Len(s) >= 1 /\ s[1] = c

(***************************************************************************)
(* BlandAIService: phone numbers                                           *)
(***************************************************************************)
\* phoneNumber.replace(/[^\d\+]/g, '')
CleanPhone(p) == SelectSeq(p, LAMBDA c : c \in Digits \cup {"+"})

PhonePrefixes == {<<>>, <<"+">>, <<"1">>, <<"+", "1">>}

\* /^(\+?1?)?[2-9]\d{2}[2-9]\d{2}\d{4}$/
MatchesPhoneRegex(s) ==
  \E pre \in PhonePrefixes :
    /\ Len(s) = Len(pre) + 10
    /\ SubSeq(s, 1, Len(pre)) = pre
    /\ LET body == SubSeq(s, Len(pre) + 1, Len(s))
       IN /\ \A i \in 1..10 : body[i] \in Digits
          /\ body[1] \notin {"0", "1"}
          /\ body[4] \notin {"0", "1"}

isValidPhoneNumber(p) ==
  IF p = Null \/ p = <<>> THEN FALSE
  ELSE MatchesPhoneRegex(CleanPhone(p))

formatPhoneNumber(p) ==
  IF p = Null \/ p = <<>> THEN Null
  ELSE LET cleaned == CleanPhone(p)
       IN IF Len(cleaned) = 10 /\ ~StartsWith(cleaned, "+")
          THEN <<"+", "1">> \o cleaned
          ELSE IF Len(cleaned) = 11 /\ StartsWith(cleaned, "1")
               THEN <<"+">> \o cleaned
               ELSE IF StartsWith(cleaned, "+") THEN cleaned
                    ELSE <<"+">> \o cleaned

SeqToSet(s) == {s[i] : i \in 1..Len(s)}

\* variant: only the caller-supplied list is consulted
isOnDoNotCallListCallerListOnly(ownSet, p, list) ==
  formatPhoneNumber(p) \in SeqToSet(list)

\* doNotCallList.includes(formatted) || this.doNotCallList.has(formatted)
isOnDoNotCallList(ownSet, p, list) ==
  LET formatted == formatPhoneNumber(p)
  IN formatted \in SeqToSet(list) \/ formatted \in ownSet

(***************************************************************************)
(* BlandAIService: configuration and call hours                            *)
(***************************************************************************)
\* an option key the caller did not supply
Absent == <<"absent">>

DefaultCallHoursStart == <<"0", "9", ":", "0", "0">>

DefaultCallHoursEnd == <<"1", "7", ":", "0", "0">>

DefaultTimezone == "America/New_York"

\* constructor: key || env || default, then ...config puts every supplied
\* key back (process.env is taken to hold no CALL_* variables)
NewConfig(opts) ==
  [callHoursStart |-> IF opts.callHoursStart = Absent
                      THEN DefaultCallHoursStart ELSE opts.callHoursStart,
   callHoursEnd   |-> IF opts.callHoursEnd = Absent
                      THEN DefaultCallHoursEnd ELSE opts.callHoursEnd,
   timezone       |-> IF opts.timezone = "absent" THEN DefaultTimezone
                      ELSE opts.timezone]

\* Offsets from UTC, in minutes, of the IANA zones the model knows (standard
\* time of the northern winter, daylight time for Auckland); any other name
\* makes Intl.DateTimeFormat throw a RangeError.
TimeZoneOffset ==
  ("America/New_York" :> (0 - 300)) @@ ("America/Los_Angeles" :> (0 - 480)) @@
  ("UTC" :> 0) @@ ("Pacific/Auckland" :> 780)

KnownTimeZones == DOMAIN TimeZoneOffset

\* day 0 is Sunday, as Date.getUTCDay
DayNames ==
  <<"Sunday", "Monday", "Tuesday", "Wednesday", "Thursday", "Friday",
    "Saturday">>

weekdays == {"Monday", "Tuesday", "Wednesday", "Thursday", "Friday"}

\* a number below 100 as two digits (hour: '2-digit', minute: '2-digit')
TwoDigit(n) == <<DigitChar[(n \div 10) + 1], DigitChar[(n % 10) + 1]>>

\* Intl.DateTimeFormat('en-US', {timeZone, hour12: false, ...})
\*   .formatToParts(now), hours in the 00..23 cycle
formatToParts(timeZone, t) ==
  LET total == t.minute + TimeZoneOffset[timeZone]
      shift == IF total < 0 THEN 0 - 1 ELSE IF total >= 1440 THEN 1 ELSE 0
      local == total - shift * 1440
      day   == (t.day + shift + 7) % 7
  IN [weekday |-> DayNames[day + 1],
      hour    |-> TwoDigit(local \div 60),
      minute  |-> TwoDigit(local % 60)]

\* const [h, m] = value.split(':').map(Number); h * 60 + m
ParseCallHours(value) ==
  LET tokens  == SplitColon(value)
      numbers == [i \in 1..Len(tokens) |-> JsNumber(tokens[i])]
  IN JsAdd(JsMul(ArrayAt(numbers, 1), Num(60)), ArrayAt(numbers, 2))

\* variant: the catch block allows the call
CallHoursOnErrorOpen == TRUE

\* the value returned when the try block throws
CallHoursOnError == FALSE

\* variant: the end minute itself is excluded
WithinBoundsEndExclusive(currentMinutes, startMinutes, endMinutes) ==
  /\ JsGeq(currentMinutes, startMinutes)
  /\ JsLeq(currentMinutes, endMinutes)
  /\ currentMinutes # endMinutes

WithinBounds(currentMinutes, startMinutes, endMinutes) ==
  JsGeq(currentMinutes, startMinutes) /\ JsLeq(currentMinutes, endMinutes)

isWithinCallHours(config, t) ==
  IF config.timezone \notin KnownTimeZones
  THEN CallHoursOnError                        \* RangeError: invalid time zone
  ELSE LET parts     == formatToParts(config.timezone, t)
           dayOfWeek == parts.weekday
           hour      == JsParseInt(parts.hour)
           minute    == JsParseInt(parts.minute)
       IN IF dayOfWeek \notin weekdays THEN FALSE
          ELSE IF config.callHoursStart = Null \/ config.callHoursEnd = Null
               THEN CallHoursOnError           \* TypeError: split of a non-string
               ELSE WithinBounds(JsAdd(JsMul(hour, Num(60)), minute),
                                 ParseCallHours(config.callHoursStart),
                                 ParseCallHours(config.callHoursEnd))

(***************************************************************************)
(* BlandAIService.makeCall                                                 *)
(***************************************************************************)
\* A call result.  The JavaScript result uses the key status both for the
\* call status ('simulated', 'queued') and for the HTTP status of a non-2xx
\* response; the model keeps them apart as status and httpStatus (0: none).
\* thrown marks an exception that leaves the function instead of a value.
NoResult ==
  [success |-> FALSE, error |-> "", dryRun |-> FALSE, status |-> "",
   httpStatus |-> 0, callId |-> "", thrown |-> FALSE]

Failure(message) == [NoResult EXCEPT !.error = message]

Thrown == [NoResult EXCEPT !.thrown = TRUE]

DryRunResult ==
  [NoResult EXCEPT !.success = TRUE, !.dryRun = TRUE,
                   !.status = "simulated", !.callId = "dry-run"]

\* variant: only the environment variable is consulted
IsDryRunEnvOnly(options, env) == env

\* options.dryRun || process.env.VOICE_DRY_RUN === 'true'
IsDryRun(options, env) == options.dryRun \/ env

\* variant: the call-hours check is missing
FirstFailingStepNoHours(dry, named, valid, inHours, onDnc) ==
  IF dry THEN "dryRun"
  ELSE IF ~named THEN "name"
  ELSE IF ~valid THEN "phone"
  ELSE IF onDnc THEN "dnc"
  ELSE "fetch"

\* The order of the checks of makeCall: the first that fails names the step
\* that returns, "fetch" when the call goes to the provider.
FirstFailingStep(dry, named, valid, inHours, onDnc) ==
  IF dry THEN "dryRun"
  ELSE IF ~named THEN "name"
  ELSE IF ~valid THEN "phone"
  ELSE IF ~inHours THEN "hours"
  ELSE IF onDnc THEN "dnc"
  ELSE "fetch"

\* makeCall up to the fetch: either the result returned without a request
\* or the request submitted to the provider
BeforeFetch(config, ownDnc, contact, options, env, t) ==
  LET step == FirstFailingStep(
                IsDryRun(options, env),
                contact.Name # "",
                isValidPhoneNumber(contact.PhoneNumber),
                isWithinCallHours(config, t),
                isOnDoNotCallList(ownDnc, contact.PhoneNumber,
                                  options.doNotCallList))
  IN CASE step = "dryRun" -> [fetch |-> FALSE, result |-> DryRunResult]
       [] step = "name"   ->
            [fetch |-> FALSE, result |-> Failure("Contact name is required")]
       [] step = "phone"  ->
            [fetch |-> FALSE, result |-> Failure("Invalid phone number format")]
       [] step = "hours"  ->
            [fetch |-> FALSE,
             result |-> Failure("Outside of allowed call hours")]
       [] step = "dnc"    ->
            [fetch |-> FALSE,
             result |-> Failure("Phone number is on do-not-call list")]
       [] OTHER           ->
            [fetch |-> TRUE, result |-> NoResult,
             request |-> [phone_number |->
                            formatPhoneNumber(contact.PhoneNumber),
                          contact_name |-> contact.Name]]

\* What the provider transport can produce for one request: the fetch
\* rejects (network error), or a response arrives with a status and a body
\* that response.json() can read or not.
NoOutcome == [kind |-> "none", ok |-> FALSE, status |-> 0, body |-> "",
              call_id |-> ""]

CallIds == {"call-1"}

FetchOutcomes ==
  {[NoOutcome EXCEPT !.kind = "reject"]}
  \cup {[kind |-> "response", ok |-> TRUE, status |-> 200, body |-> "json",
         call_id |-> c] : c \in CallIds}
  \cup {[kind |-> "response", ok |-> TRUE, status |-> 200,
         body |-> "unreadable", call_id |-> ""],
        [kind |-> "response", ok |-> FALSE, status |-> 400, body |-> "json",
         call_id |-> ""],
        [kind |-> "response", ok |-> FALSE, status |-> 502,
         body |-> "unreadable", call_id |-> ""]}

\* the try block from the fetch on: await fetch, await response.json(),
\* then the test of response.ok
AfterFetchBody(outcome) ==
  IF outcome.kind = "reject" THEN Thrown
  ELSE IF outcome.body # "json" THEN Thrown
  ELSE IF ~outcome.ok
       THEN [Failure("Bland.ai API error") EXCEPT !.httpStatus = outcome.status]
       ELSE [NoResult EXCEPT !.success = TRUE, !.callId = outcome.call_id,
                             !.status = "queued"]

\* catch (error) { return { success: false, error: `Call failed: ...` } }
CatchCallError(r) == IF r.thrown THEN Failure("Call failed") ELSE r

AfterFetch(outcome) == CatchCallError(AfterFetchBody(outcome))

\* this.activeCalls.set(responseData.call_id, callResult), reached only on
\* the success path after the fetch
TrackCall(active, requested, result) ==
  IF requested /\ result.success THEN active \cup {result.callId} ELSE active

(***************************************************************************)
(* WebhookServer                                                           *)
(***************************************************************************)
LogCap == 1000

LowerCase ==
  ("A" :> "a") @@ ("B" :> "b") @@ ("C" :> "c") @@ ("D" :> "d")
  @@ ("E" :> "e") @@ ("F" :> "f") @@ ("G" :> "g") @@ ("H" :> "h")
  @@ ("I" :> "i") @@ ("J" :> "j") @@ ("K" :> "k") @@ ("L" :> "l")
  @@ ("M" :> "m") @@ ("N" :> "n") @@ ("O" :> "o") @@ ("P" :> "p")
  @@ ("Q" :> "q") @@ ("R" :> "r") @@ ("S" :> "s") @@ ("T" :> "t")
  @@ ("U" :> "u") @@ ("V" :> "v") @@ ("W" :> "w") @@ ("X" :> "x")
  @@ ("Y" :> "y") @@ ("Z" :> "z")

ToLower(s) ==
  [i \in 1..Len(s) |-> IF s[i] \in DOMAIN LowerCase THEN LowerCase[s[i]]
                       ELSE s[i]]

MatchAt(s, i, w) ==
  /\ i >= 1
  /\ i + Len(w) - 1 <= Len(s)
  /\ SubSeq(s, i, i + Len(w) - 1) = w

Contains(s, w) == \E i \in 1..Len(s) : MatchAt(s, i, w)

\* /press(?:ed)?\s*D/i for the digit D
MatchesPress(s, d) ==
  LET t == ToLower(s)
  IN \E i \in 1..Len(t) :
       /\ MatchAt(t, i, <<"p", "r", "e", "s", "s">>)
       /\ \E j \in {i + 5} \cup
                   (IF MatchAt(t, i + 5, <<"e", "d">>) THEN {i + 7} ELSE {}) :
            \E k \in j..Len(t) :
              /\ \A m \in j..(k - 1) : t[m] = " "
              /\ t[k] = d

\* variant: the transcript is consulted before user_input
extractUserChoiceTranscriptFirst(data) ==
  IF MatchesPress(data.transcript, "1")
     \/ Contains(ToLower(data.transcript), <<"o", "n", "e">>)
  THEN "1"
  ELSE IF MatchesPress(data.transcript, "2")
          \/ Contains(ToLower(data.transcript), <<"t", "w", "o">>)
       THEN "2"
       ELSE data.user_input

\* user_input if truthy, else /press(?:ed)?\s*1|one/i, then
\* /press(?:ed)?\s*2|two/i on the transcript, else null ("")
extractUserChoice(data) ==
  IF data.user_input # "" THEN data.user_input
  ELSE IF MatchesPress(data.transcript, "1")
          \/ Contains(ToLower(data.transcript), <<"o", "n", "e">>)
       THEN "1"
       ELSE IF MatchesPress(data.transcript, "2")
               \/ Contains(ToLower(data.transcript), <<"t", "w", "o">>)
            THEN "2"
            ELSE ""

processWebhook(data) ==
  [callId |-> data.call_id, status |-> data.status,
   duration |-> data.duration, outcome |-> data.outcome,
   userChoice |-> extractUserChoice(data),
   rawPhone |-> data.phone_number, metaPhone |-> data.metadata_phone]

\* processedData.phoneNumber || rawData?.phone_number ||
\* metadata?.phone_number || null; processWebhook sets no phoneNumber
extractPhoneNumber(processed) ==
  IF processed.rawPhone # Null /\ processed.rawPhone # <<>>
  THEN processed.rawPhone
  ELSE IF processed.metaPhone # Null /\ processed.metaPhone # <<>>
       THEN processed.metaPhone
       ELSE Null

LogEntry(processed, action, phone) ==
  [callId |-> processed.callId, status |-> processed.status,
   duration |-> processed.duration, outcome |-> processed.outcome,
   userChoice |-> processed.userChoice, action |-> action,
   phoneNumber |-> phone]

\* variant: a full log keeps its oldest entries
logCallOutcomeKeepOldest(logs, entry) ==
  LET pushed == Append(logs, entry)
  IN IF Len(pushed) > LogCap THEN SubSeq(pushed, 1, LogCap) ELSE pushed

\* this.callLogs.push(logEntry); keep the last LogCap entries
logCallOutcome(logs, entry) ==
  LET pushed == Append(logs, entry)
  IN IF Len(pushed) > LogCap
     THEN SubSeq(pushed, Len(pushed) - LogCap + 1, Len(pushed))
     ELSE pushed

\* variant: the incoming event is logged only when it carries a choice
BaseEntriesChoiceOnly(processed) ==
  IF processed.userChoice = "" THEN <<>>
  ELSE <<LogEntry(processed, "", Null)>>

\* this.logCallOutcome(processed) of the handler: one entry per event
BaseEntries(processed) == <<LogEntry(processed, "", Null)>>

\* variant: sendCalendlyLink logs nothing
ActionEntriesOptOutOnly(config, processed, dncOk) ==
  LET phone == extractPhoneNumber(processed)
  IN IF processed.userChoice = "2" /\ phone # Null /\ dncOk
     THEN <<LogEntry(processed, "opted_out", phone)>>
     ELSE <<>>

\* the entries handleUserChoice logs: sendCalendlyLink for '1' (when a
\* Calendly link is configured), addToDoNotCallList for '2'; both return
\* without logging when the event carries no phone number, and
\* addToDoNotCallList also when reading or writing its file throws (dncOk
\* false)
ActionEntries(config, processed, dncOk) ==
  LET phone == extractPhoneNumber(processed)
  IN IF processed.userChoice = "1" /\ config.calendlyLink /\ phone # Null
     THEN <<LogEntry(processed, "sms_sent", phone)>>
     ELSE IF processed.userChoice = "2" /\ phone # Null /\ dncOk
          THEN <<LogEntry(processed, "opted_out", phone)>>
          ELSE <<>>

\* the entry addToDoNotCallList pushes onto ./logs/do-not-call-list.json
DoNotCallEntries(processed, dncOk) ==
  LET phone == extractPhoneNumber(processed)
  IN IF processed.userChoice = "2" /\ phone # Null /\ dncOk
     THEN <<[phoneNumber |-> phone, callId |-> processed.callId,
             reason |-> "user_requested"]>>
     ELSE <<>>

\* variant: the newest entry is appended to the file
saveLogsToFileAppending(file, logs, ok) ==
  IF ok THEN Append(file, logs[Len(logs)]) ELSE file

\* saveLogsToFile: writeFileSync of the whole in-memory log; an exception is
\* caught and leaves the file as it was
saveLogsToFile(file, logs, ok) == IF ok THEN logs ELSE file

\* variant: the entry replaces the log instead of joining it
LoggedOverwrite(store, entry, ok) ==
  [logs |-> <<entry>>, file |-> saveLogsToFile(store.file, <<entry>>, ok),
   arrivals |-> Append(store.arrivals, entry)]

\* logCallOutcome with its saveLogsToFile, on the log in memory, the log
\* file and the record of everything ever passed to logCallOutcome
Logged(store, entry, ok) ==
  LET logs == logCallOutcome(store.logs, entry)
  IN [logs |-> logs, file |-> saveLogsToFile(store.file, logs, ok),
      arrivals |-> Append(store.arrivals, entry)]

\* what the file system does to the writes of one request: the log file
\* write of the event, the do-not-call file, the log file write of the action
FsOutcomes == [base : BOOLEAN, dnc : BOOLEAN, action : BOOLEAN]

HealthyFs == [base |-> TRUE, dnc |-> TRUE, action |-> TRUE]

\* lines 73-78 of the handler, which run without an await in between:
\* logCallOutcome(processed), then handleUserChoice up to its end
Handled(store, dnc, config, processed, fs) ==
  LET base    == BaseEntries(processed)
      first   == IF base = <<>> THEN store ELSE Logged(store, base[1], fs.base)
      actions == IF processed.userChoice = "" THEN <<>>
                 ELSE ActionEntries(config, processed, fs.dnc)
      second  == IF actions = <<>> THEN first
                 ELSE Logged(first, actions[1], fs.action)
  IN [store |-> second,
      dnc |-> IF processed.userChoice = "" THEN dnc
              ELSE dnc \o DoNotCallEntries(processed, fs.dnc)]

\* c.json(...) of the handler: 200 with success, or 500 from the catch block
Response(data, status) ==
  [success |-> (status = 200), httpStatus |-> status,
   callId |-> IF status = 200 THEN data.call_id ELSE ""]

\* what a finished request is remembered by: its body, what the file
\* system did to its writes, and the response
Answered(data, fs, status) ==
  [op |-> "webhook", data |-> data, fs |-> fs,
   response |-> Response(data, status)]

(***************************************************************************)
(* Inputs                                                                  *)
(***************************************************************************)
\* '+12345678901'
PhoneA == <<"+", "1", "2", "3", "4", "5", "6", "7", "8", "9", "0", "1">>

\* '234-567-8901', the same number as PhoneA written without country code
PhoneADashed == <<"2", "3", "4", "-", "5", "6", "7", "-", "8", "9", "0", "1">>

\* '+19876543210'
PhoneB == <<"+", "1", "9", "8", "7", "6", "5", "4", "3", "2", "1", "0">>

\* 'invalid-number'
PhoneInvalid == <<"i", "n", "v", "a", "l", "i", "d", "-", "n", "u", "m", "b", "e", "r">>

Contacts ==
  {[Name |-> "John Doe", PhoneNumber |-> PhoneA],
   [Name |-> "John Doe", PhoneNumber |-> PhoneADashed],
   [Name |-> "Jane Smith", PhoneNumber |-> PhoneB],
   [Name |-> "Bad Number", PhoneNumber |-> PhoneInvalid],
   [Name |-> "", PhoneNumber |-> PhoneB]}

CallerLists == {<<>>, <<PhoneB>>, <<PhoneADashed>>}

CallOptions ==
  [dryRun : BOOLEAN, doNotCallList : CallerLists]

\* UTC instants: day of the week (0 = Sunday) and minute of the day
Tuesday1700 == [day |-> 2, minute |-> 1020]

Tuesday1300 == [day |-> 2, minute |-> 780]

Saturday1700 == [day |-> 6, minute |-> 1020]

SpecInstants == {Tuesday1700, Tuesday1300, Saturday1700}

\* minutes of the UTC day that fall, in each of the known zones, on and
\* next to 09:00 and 17:00 local time, and in UTC on and next to 08:30 and
\* 17:30
MinuteSamples ==
  {59, 60, 61, 239, 240, 241, 509, 510, 511, 539, 540, 541, 839, 840, 841,
   1019, 1020, 1021, 1049, 1050, 1051, 1199, 1200, 1201, 1319, 1320, 1321}

Instants == [day : 0..6, minute : MinuteSamples]

NoOptions ==
  [callHoursStart |-> Absent, callHoursEnd |-> Absent, timezone |-> "absent"]

\* '9' and '17', the values of CALL_HOURS_START / CALL_HOURS_END in README.md
HoursOnlyOptions ==
  [NoOptions EXCEPT !.callHoursStart = <<"9">>,
                    !.callHoursEnd = <<"1", "7">>]

SpecConfigs == {NewConfig(NoOptions), NewConfig(HoursOnlyOptions)}

StartValues ==
  {Absent, <<"0", "8", ":", "3", "0">>, <<"9">>, <<"a", "b", ":", "0", "0">>,
   <<>>, Null}

EndValues ==
  {Absent, <<"1", "7", ":", "3", "0">>, <<"1", "7">>, <<"1", "7", ":", "x", "x">>, Null}

ZoneValues ==
  {"absent", "America/Los_Angeles", "UTC", "Pacific/Auckland", "Mars/Phobos"}

HoursConfigs ==
  {NewConfig([callHoursStart |-> st, callHoursEnd |-> en, timezone |-> z]) :
     st \in StartValues, en \in EndValues, z \in ZoneValues}

(***************************************************************************)
(* State                                                                   *)
(***************************************************************************)
VARIABLES
  now,            \* the instant new Date() returns
  envDryRun,      \* process.env.VOICE_DRY_RUN === 'true'
  svcConfig,      \* BlandAIService.config of the long-lived service
  svcDnc,         \* BlandAIService.doNotCallList of the long-lived service
  activeCalls,    \* BlandAIService.activeCalls (its call ids)
  callHistory,    \* BlandAIService.callHistory (the call ids of its entries)
  ret,            \* what the operation of the latest step returned
  whConfig,       \* WebhookServer.config
  callLogs,       \* WebhookServer.callLogs
  logFile,        \* content of config.logFile
  dncFile,        \* content of ./logs/do-not-call-list.json
  arrivals,       \* every entry passed to logCallOutcome, in arrival order
  cleared,        \* Len(arrivals) when DELETE /logs last emptied the log
  requests,       \* POST /webhook requests answered since the initial state
  handlers,       \* per concurrent request: how far its handler has come
  campPc,         \* startCallCampaign: where the run stands
  campContacts,   \* its contacts argument
  campOptions,    \* its options argument
  campConfig,     \* config of the BlandAIService it constructs
  campDnc,        \* doNotCallList of the BlandAIService it constructs
  campIndex,      \* the loop variable i, counted from 1
  campResults,    \* results
  successful,     \* successful
  failed,         \* failed
  inFlight,       \* provider requests of the run that await their response
  dispatchCount,  \* per contact index, the makeCall invocations of the run
  providerCalls,  \* per contact index, the requests sent to the provider
  campSummary,    \* the campaignResults returned
  waited,         \* milliseconds since the latest makeCall of the run returned
  gaps,           \* per later dispatch, the value of waited when it started
  cancelRequested, \* the caller of the run has asked for it to stop
  campaignIds,    \* campaign ids of the run: per request sent, and the summary's
  ledger,         \* content of the contact CSV file of updateCSVStatus
  updates,        \* updateCSVStatus calls since the initial state
  updaters,       \* per overlapping updateCSVStatus call: how far it has come
  mail            \* EmailService.sendSingle: the call in progress or returned

svcVars == <<svcConfig, svcDnc, activeCalls, callHistory>>

whVars ==
  <<whConfig, callLogs, logFile, dncFile, arrivals, cleared, requests,
    handlers>>

campVars ==
  <<campPc, campContacts, campOptions, campConfig, campDnc, campIndex,
    campResults, successful, failed, inFlight, dispatchCount, providerCalls,
    campSummary, waited, gaps, cancelRequested, campaignIds>>

csvVars == <<ledger, updates, updaters>>

mailVars == <<mail>>

vars == <<now, envDryRun, ret, svcVars, whVars, campVars, csvVars, mailVars>>

NoReturn == [op |-> "none"]

NoSummary == [successful |-> 0, failed |-> 0, total |-> 0, results |-> <<>>]

\* this.doNotCallList = new Set() of the constructor
NewDoNotCallList == {}

\* a CSV file: its header line and, per data line, the cells of the line
NoLedger == [headers |-> <<>>, rows |-> <<>>]

\* no sendSingle call yet
NoMail ==
  [pc |-> "idle", maxRetries |-> 0, retryDelay |-> 0, attempt |-> 0,
   outcomes |-> <<>>, waits |-> <<>>, result |-> [kind |-> "none"]]

\* the overlapping updateCSVStatus calls of one batch
Updaters == {1, 2}

\* a call that has not been made
IdleUpdater ==
  [pc |-> "idle", statusUpdate |-> <<>>, pending |-> NoLedger,
   result |-> <<>>]

InitLedger ==
  /\ ledger = NoLedger
  /\ updates = 0
  /\ updaters = [u \in Updaters |-> IdleUpdater]
  /\ mail = NoMail

InitService ==
  /\ svcDnc = NewDoNotCallList
  /\ activeCalls = {}
  /\ callHistory = <<>>

\* concurrent requests of the handler specification
MaxHandlers == 2

Handlers == 1..MaxHandlers

IdleHandler == [pc |-> "idle", data |-> <<>>, status |-> 0, fs |-> HealthyFs]

InitWebhook ==
  /\ whConfig \in [calendlyLink : BOOLEAN]
  /\ callLogs = <<>>
  /\ logFile = <<>>
  /\ dncFile = <<>>
  /\ arrivals = <<>>
  /\ cleared = 0
  /\ requests = 0
  /\ handlers = [h \in Handlers |-> IdleHandler]

\* no request sent and no summary returned
NoCampaignIds == [sent |-> <<>>, summary |-> ""]

InitCampaign ==
  /\ campPc = "idle"
  /\ campContacts = <<>>
  /\ campOptions = [dryRun |-> FALSE, delay |-> 0, doNotCallList |-> <<>>,
                    campaignId |-> ""]
  /\ campConfig = NewConfig(NoOptions)
  /\ campDnc = NewDoNotCallList
  /\ campIndex = 1
  /\ campResults = <<>>
  /\ successful = 0
  /\ failed = 0
  /\ inFlight = 0
  /\ dispatchCount = <<>>
  /\ providerCalls = <<>>
  /\ campSummary = NoSummary
  /\ waited = 0
  /\ gaps = <<>>
  /\ cancelRequested = FALSE
  /\ campaignIds = NoCampaignIds

Init ==
  /\ now \in SpecInstants
  /\ envDryRun \in BOOLEAN
  /\ svcConfig \in SpecConfigs
  /\ ret = NoReturn
  /\ InitService
  /\ InitLedger
  /\ InitWebhook
  /\ whConfig.calendlyLink
  /\ InitCampaign

(***************************************************************************)
(* The clock and the long-lived BlandAIService                             *)
(***************************************************************************)
Tick ==
  /\ now' \in SpecInstants \ {now}
  /\ ret' = NoReturn
  /\ UNCHANGED <<envDryRun, csvVars, mailVars, svcVars, whVars, campVars>>

\* variant: the set keeps only the number added last
SetAddReplace(set, x) == {x}

\* Set.prototype.add
SetAdd(set, x) == set \cup {x}

\* BlandAIService.addToDoNotCallList(phoneNumber)
AddToDoNotCallList(p) ==
  /\ svcDnc' = SetAdd(svcDnc, formatPhoneNumber(p))
  /\ ret' = NoReturn
  /\ UNCHANGED <<now, envDryRun, csvVars, mailVars, svcConfig, activeCalls, callHistory,
                 whVars, campVars>>

\* BlandAIService.makeCall(contact, options); when the call reaches the
\* fetch the provider answers with one of outcomes
MakeCallAnswered(contact, options, outcomes) ==
  LET pre == BeforeFetch(svcConfig, svcDnc, contact, options, envDryRun, now)
  IN \E outcome \in (IF pre.fetch THEN outcomes ELSE {NoOutcome}) :
       LET result == IF pre.fetch THEN AfterFetch(outcome) ELSE pre.result
       IN /\ activeCalls' = TrackCall(activeCalls, pre.fetch, result)
          /\ ret' = [op |-> "makeCall", contact |-> contact,
                     options |-> options, requested |-> pre.fetch,
                     outcome |-> outcome, result |-> result]
          /\ UNCHANGED <<now, envDryRun, csvVars, mailVars, svcConfig, svcDnc,
                         callHistory, whVars, campVars>>

\* makeCall when the provider may answer with any of FetchOutcomes
MakeCall(contact, options) == MakeCallAnswered(contact, options, FetchOutcomes)

\* call ids of a provider that gives every call its own id
TrackedCallIds == {"call-1", "call-2"}

\* what that provider may answer now: an id it has not given out before
FreshOutcomes ==
  {o \in FetchOutcomes : o.call_id = ""}
  \cup {[kind |-> "response", ok |-> TRUE, status |-> 200, body |-> "json",
         call_id |-> c] :
          c \in TrackedCallIds \ (activeCalls \cup SeqToSet(callHistory))}

\* ['completed', 'failed', 'no-answer']
FinalStatuses == {"completed", "failed", "no-answer"}

\* variant: the call is pushed to the history and stays active
processWebhookDataKeepsActive(active, history, webhookData) ==
  IF webhookData.call_id = ""
  THEN [active |-> active, history |-> history, error |-> TRUE]
  ELSE IF webhookData.call_id \in active
          /\ webhookData.status \in FinalStatuses
       THEN [active |-> active,
             history |-> Append(history, webhookData.call_id),
             error |-> FALSE]
       ELSE [active |-> active, history |-> history, error |-> FALSE]

\* BlandAIService.processWebhookData: activeCalls and callHistory after
\* it, and whether it returned { error }
processWebhookData(active, history, webhookData) ==
  IF webhookData.call_id = ""
  THEN [active |-> active, history |-> history, error |-> TRUE]
  ELSE IF webhookData.call_id \in active
          /\ webhookData.status \in FinalStatuses
       THEN [active |-> active \ {webhookData.call_id},
             history |-> Append(history, webhookData.call_id),
             error |-> FALSE]
       ELSE [active |-> active, history |-> history, error |-> FALSE]

\* BlandAIService.isWithinCallHours(testDate) with testDate = now
CheckCallHours ==
  /\ ret' = [op |-> "isWithinCallHours",
             value |-> isWithinCallHours(svcConfig, now)]
  /\ UNCHANGED <<now, envDryRun, csvVars, mailVars, svcVars, whVars, campVars>>

(***************************************************************************)
(* POST /webhook                                                           *)
(***************************************************************************)
\* a request body; json is false when the body is not JSON and c.req.json()
\* rejects, call_id and user_input "" stand for an absent field
NoPayload ==
  [json |-> TRUE, call_id |-> "call-1", status |-> "completed",
   duration |-> 30, outcome |-> "answered", transcript |-> <<>>,
   user_input |-> "", phone_number |-> Null, metadata_phone |-> Null]

WebhookPayloads ==
  {[NoPayload EXCEPT !.user_input = "2", !.phone_number = PhoneA],
   [NoPayload EXCEPT !.transcript = <<"P", "r", "e", "s", "s", "e", "d", " ", "2">>, !.metadata_phone = PhoneB],
   [NoPayload EXCEPT !.user_input = "1", !.phone_number = PhoneA],
   [NoPayload EXCEPT !.user_input = "2"],
   NoPayload}

\* further bodies: no call_id, not JSON, a choice that is neither 1 nor 2,
\* a call that failed unanswered
IngestPayloads ==
  WebhookPayloads
  \cup {[NoPayload EXCEPT !.call_id = ""],
        [NoPayload EXCEPT !.status = "failed", !.outcome = "no-answer",
                          !.duration = 12],
        [NoPayload EXCEPT !.json = FALSE],
        [NoPayload EXCEPT !.user_input = "3", !.phone_number = PhoneA],
        [NoPayload EXCEPT !.user_input = "1"]}

\* the POST /webhook handler run from the request to the response with no
\* other request in between: c.req.json(), processWebhook, logCallOutcome,
\* handleUserChoice, c.json
Webhook(data, fs) ==
  LET processed == processWebhook(data)
      after     == Handled([logs |-> callLogs, file |-> logFile,
                            arrivals |-> arrivals],
                           dncFile, whConfig, processed, fs)
  IN /\ requests < MaxWebhooks
     /\ requests' = requests + 1
     /\ IF data.json
        THEN /\ callLogs' = after.store.logs
             /\ logFile' = after.store.file
             /\ arrivals' = after.store.arrivals
             /\ dncFile' = after.dnc
             /\ ret' = Answered(data, fs, 200)
        ELSE /\ ret' = Answered(data, fs, 500)
             /\ UNCHANGED <<callLogs, logFile, arrivals, dncFile>>
     /\ UNCHANGED <<now, envDryRun, csvVars, mailVars, svcVars, whConfig, cleared, handlers,
                    campVars>>

\* The same handler as the steps between which other requests can run.  A
\* handler gives up control only at its awaits: c.req.json() (line 67),
\* processWebhook (70) and handleUserChoice (77).
HandlerPayloads ==
  {[d EXCEPT !.duration = k] :
     d \in {[NoPayload EXCEPT !.user_input = "2", !.phone_number = PhoneA],
            [NoPayload EXCEPT !.user_input = "1", !.phone_number = PhoneA],
            NoPayload,
            [NoPayload EXCEPT !.json = FALSE]},
     k \in Handlers}

\* a request arrives and its handler awaits the body
Receive(h, data) ==
  /\ handlers[h].pc = "idle"
  /\ handlers' = [handlers EXCEPT ![h] = [pc |-> "json", data |-> data,
                                          status |-> 0, fs |-> HealthyFs]]
  /\ ret' = NoReturn
  /\ UNCHANGED <<now, envDryRun, csvVars, mailVars, svcVars, whConfig, callLogs, logFile,
                 dncFile, arrivals, cleared, requests, campVars>>

\* c.req.json() settles: the catch block answers 500, or processWebhook
\* runs and the handler awaits its promise
Parsed(h) ==
  /\ handlers[h].pc = "json"
  /\ IF handlers[h].data.json
     THEN /\ handlers' = [handlers EXCEPT ![h].pc = "processed"]
          /\ ret' = NoReturn
          /\ UNCHANGED requests
     ELSE /\ handlers' = [handlers EXCEPT ![h].pc = "done",
                                          ![h].status = 500]
          /\ ret' = Answered(handlers[h].data, HealthyFs, 500)
          /\ requests' = requests + 1
  /\ UNCHANGED <<now, envDryRun, csvVars, mailVars, svcVars, whConfig, callLogs, logFile,
                 dncFile, arrivals, cleared, campVars>>

\* lines 73-78 in one turn; without a choice the response follows in the
\* same turn, otherwise the handler awaits handleUserChoice
LogAndRoute(h, fs) ==
  LET data      == handlers[h].data
      processed == processWebhook(data)
      after     == Handled([logs |-> callLogs, file |-> logFile,
                            arrivals |-> arrivals],
                           dncFile, whConfig, processed, fs)
  IN /\ handlers[h].pc = "processed"
     /\ callLogs' = after.store.logs
     /\ logFile' = after.store.file
     /\ arrivals' = after.store.arrivals
     /\ dncFile' = after.dnc
     /\ IF processed.userChoice = ""
        THEN /\ handlers' = [handlers EXCEPT ![h].pc = "done",
                                             ![h].status = 200,
                                             ![h].fs = fs]
             /\ ret' = Answered(data, fs, 200)
             /\ requests' = requests + 1
        ELSE /\ handlers' = [handlers EXCEPT ![h].pc = "routed",
                                             ![h].fs = fs]
             /\ ret' = NoReturn
             /\ UNCHANGED requests
     /\ UNCHANGED <<now, envDryRun, csvVars, mailVars, svcVars, whConfig, cleared, campVars>>

\* handleUserChoice has settled: the handler answers 200
Respond(h) ==
  /\ handlers[h].pc = "routed"
  /\ handlers' = [handlers EXCEPT ![h].pc = "done", ![h].status = 200]
  /\ ret' = Answered(handlers[h].data, handlers[h].fs, 200)
  /\ requests' = requests + 1
  /\ UNCHANGED <<now, envDryRun, csvVars, mailVars, svcVars, whConfig, callLogs, logFile,
                 dncFile, arrivals, cleared, campVars>>

\* DELETE /logs
DeleteLogs ==
  /\ callLogs' = <<>>
  /\ cleared' = Len(arrivals)
  /\ ret' = [op |-> "deleteLogs"]
  /\ UNCHANGED <<now, envDryRun, csvVars, mailVars, svcVars, whConfig, logFile, dncFile,
                 arrivals, requests, handlers, campVars>>

\* a / b of two counts: NaN or Infinity when b is 0
Quotient(a, b) ==
  IF b = 0
  THEN [finite |-> FALSE, num |-> a, den |-> 1]
  ELSE [finite |-> TRUE, num |-> a, den |-> b]

\* the number 0
Zero == [finite |-> TRUE, num |-> 0, den |-> 1]

\* Math.round(q): halves go up; NaN and Infinity stay
MathRound(q) ==
  IF q.finite
  THEN [finite |-> TRUE, num |-> (2 * q.num + q.den) \div (2 * q.den),
        den |-> 1]
  ELSE q

\* (q * 100).toFixed(2): the percentage in hundredths, rounded
Percent(q) ==
  IF q.finite
  THEN [finite |-> TRUE,
        num |-> (2 * 10000 * q.num + q.den) \div (2 * q.den), den |-> 100]
  ELSE q

\* the indices of the log
Entries(logs) == 1..Len(logs)

\* stats.totalDuration over the entries first..last: every truthy duration
RECURSIVE TotalDuration(_, _, _)
TotalDuration(logs, first, last) ==
  IF first > last THEN 0
  ELSE IF first = last THEN logs[first].duration
  ELSE LET middle == (first + last) \div 2
       IN TotalDuration(logs, first, middle)
            + TotalDuration(logs, middle + 1, last)

\* the counts generateStats takes in its loop over this.callLogs
StatsCounts(logs) ==
  [total |-> Len(logs),
   completed |->
     Cardinality({k \in Entries(logs) : logs[k].status = "completed"}),
   failed |-> Cardinality({k \in Entries(logs) : logs[k].status = "failed"}),
   answered |->
     Cardinality({k \in Entries(logs) : logs[k].outcome = "answered"}),
   voicemail |->
     Cardinality({k \in Entries(logs) : logs[k].outcome = "voicemail"}),
   noAnswer |->
     Cardinality({k \in Entries(logs) : logs[k].outcome = "no-answer"}),
   scheduledMeetings |->
     Cardinality({k \in Entries(logs) : logs[k].userChoice = "1"}),
   optedOut |->
     Cardinality({k \in Entries(logs) :
                    logs[k].userChoice = "2" \/ logs[k].action = "opted_out"}),
   totalDuration |-> TotalDuration(logs, 1, Len(logs))]

\* variant: the average and the rates are computed whatever the divisor
generateStatsUnguarded(logs) ==
  LET stats == StatsCounts(logs)
  IN [counts |-> stats,
      averageDuration |->
        MathRound(Quotient(stats.totalDuration, stats.completed)),
      answerRate |-> Percent(Quotient(stats.answered, stats.total)),
      conversionRate |->
        Percent(Quotient(stats.scheduledMeetings, stats.answered))]

\* WebhookServer.generateStats()
generateStats(logs) ==
  LET stats == StatsCounts(logs)
  IN [counts |-> stats,
      averageDuration |->
        IF stats.completed > 0
        THEN MathRound(Quotient(stats.totalDuration, stats.completed))
        ELSE Zero,
      answerRate |->
        IF stats.total > 0
        THEN Percent(Quotient(stats.answered, stats.total))
        ELSE Zero,
      conversionRate |->
        IF stats.answered > 0
        THEN Percent(Quotient(stats.scheduledMeetings, stats.answered))
        ELSE Zero]

\* GET /stats
GetStats ==
  /\ ret' = [op |-> "stats", stats |-> generateStats(callLogs)]
  /\ UNCHANGED <<now, envDryRun, csvVars, mailVars, svcVars, whVars, campVars>>

(***************************************************************************)
(* startCallCampaign                                                       *)
(***************************************************************************)
DefaultDelay == 5000

\* options.delay || 5000 (an absent delay is 0 in the model)
CampaignDelay(options) ==
  IF options.delay = 0 THEN DefaultDelay ELSE options.delay

CampaignContacts ==
  {[Name |-> "John Doe", PhoneNumber |-> PhoneA],
   [Name |-> "Jane Smith", PhoneNumber |-> PhoneB],
   [Name |-> "Bad Number", PhoneNumber |-> PhoneInvalid]}

ContactLists ==
  UNION {[1..n -> CampaignContacts] : n \in 0..MaxContacts}

\* the options of a run; campaignId is absent ("") or the caller's id
CampaignOptions ==
  [dryRun : BOOLEAN, delay : {0, 100, 0 - 1},
   doNotCallList : {<<>>, <<PhoneB>>}, campaignId : {""}]
  \cup {[dryRun |-> FALSE, delay |-> 100, doNotCallList |-> <<>>,
          campaignId |-> "spring"]}

\* milliseconds between the first makeCall of the run and the instant at
\* which the waits in g are over (the time makeCall itself takes is 0)
RECURSIVE SinceStart(_)
SinceStart(g) == IF g = <<>> THEN 0 ELSE Head(g) + SinceStart(Tail(g))

\* options.campaignId || `campaign-${Date.now()}`, evaluated ms
\* milliseconds after the first makeCall of the run
CampaignIdOf(options, ms) ==
  IF options.campaignId # "" THEN <<"given", options.campaignId>>
  ELSE <<"campaign-", ms>>

\* the options of the makeCall of one iteration, as far as its checks
\* read them
CallOptionsOf(options) ==
  [dryRun |-> options.dryRun, doNotCallList |-> options.doNotCallList]

\* variant: the loop goes on without awaiting makeCall
NoAwaitMakeCall == "loop"

\* where the loop stands while it awaits the makeCall of contact i
AwaitMakeCall == "fetch"

\* variant: a provider error repeats the iteration
NextIndexRetry(i, result) == IF result.httpStatus # 0 THEN i ELSE i + 1

\* the for loop's i++
NextIndex(i, result) == i + 1

Summary(succ, fail, contacts, results) ==
  [successful |-> succ, failed |-> fail, total |-> Len(contacts),
   results |-> results]

\* variant: only the successful calls are recorded
PushResultSuccessOnly(results, result, i) ==
  IF result.success
  THEN Append(results, [result |-> CatchCallError(result), contactIndex |-> i])
  ELSE results

\* results.push({...result, contactIndex: i + 1}) of the try branch and of
\* the catch branch (i counts from 1 in the model)
PushResult(results, result, i) ==
  Append(results, [result |-> CatchCallError(result), contactIndex |-> i])

\* variant: the pacing delay is skipped after a failed call
PacesAfterSuccessOnly(result, i, n, delay) ==
  /\ ~result.thrown
  /\ result.success
  /\ i < n
  /\ delay > 0

\* if (i < contacts.length - 1 && delay > 0), reached in the try branch only
Paces(result, i, n, delay) ==
  /\ ~result.thrown
  /\ i < n
  /\ delay > 0

\* a provider response that accepts the request: 200 with a call id
AcceptedOutcome ==
  [kind |-> "response", ok |-> TRUE, status |-> 200, body |-> "json",
   call_id |-> "call-1"]

\* successful, failed and total of the summary startCallCampaign returns
\* for contacts and options at instant t when the provider accepts every
\* request it receives
CampaignCounts(config, dnc, contacts, options, env, t) ==
  LET resultOf(i) ==
        LET pre == BeforeFetch(config, dnc, contacts[i],
                               CallOptionsOf(options), env, t)
        IN IF pre.fetch THEN AfterFetch(AcceptedOutcome) ELSE pre.result
      succ == Cardinality({i \in 1..Len(contacts) : resultOf(i).success})
  IN [successful |-> succ, failed |-> Len(contacts) - succ,
      total |-> Len(contacts)]

\* startCallCampaign(contacts, options) up to the first iteration; the
\* options are also the config of the BlandAIService it constructs
StartCallCampaign(contacts, options) ==
  /\ campPc = "idle"
  /\ campContacts' = contacts
  /\ campOptions' = options
  /\ campConfig' = NewConfig(NoOptions)
  /\ campDnc' = NewDoNotCallList
  /\ campIndex' = 1
  /\ campResults' = <<>>
  /\ successful' = 0
  /\ failed' = 0
  /\ inFlight' = 0
  /\ dispatchCount' = [i \in 1..Len(contacts) |-> 0]
  /\ providerCalls' = [i \in 1..Len(contacts) |-> 0]
  /\ IF Len(contacts) = 0
     THEN /\ campPc' = "done"
          /\ campSummary' = Summary(0, 0, contacts, <<>>)
          /\ campaignIds' = [sent |-> <<>>,
                              summary |-> CampaignIdOf(options, 0)]
     ELSE /\ campPc' = "loop"
          /\ campSummary' = NoSummary
          /\ campaignIds' = NoCampaignIds
  /\ waited' = 0
  /\ gaps' = <<>>
  /\ cancelRequested' = FALSE
  /\ ret' = NoReturn
  /\ UNCHANGED <<now, envDryRun, csvVars, mailVars, svcVars, whVars>>

\* The rest of iteration i once makeCall has returned (or thrown): count,
\* push the result, then the pacing delay or the next iteration; the catch
\* branch counts a failure and skips the delay. ids are the campaign ids
\* of the requests sent so far, ms the time since the run's first makeCall.
Continue(i, result, ids, ms) ==
  LET isSuccess == ~result.thrown /\ result.success
      succ      == IF isSuccess THEN successful + 1 ELSE successful
      fail      == IF isSuccess THEN failed ELSE failed + 1
      pushed    == PushResult(campResults, result, i)
      paces     == Paces(result, i, Len(campContacts),
                         CampaignDelay(campOptions))
      next      == NextIndex(i, result)
  IN /\ successful' = succ
     /\ failed' = fail
     /\ campResults' = pushed
     /\ waited' = 0
     /\ IF paces
        THEN /\ campPc' = "delay"
             /\ campIndex' = i
             /\ campSummary' = campSummary
             /\ campaignIds' = [campaignIds EXCEPT !.sent = ids]
        ELSE /\ campIndex' = next
             /\ IF next > Len(campContacts)
                THEN /\ campPc' = "done"
                     /\ campSummary' =
                          Summary(succ, fail, campContacts, pushed)
                     /\ campaignIds' =
                          [sent |-> ids,
                           summary |-> CampaignIdOf(campOptions, ms)]
                ELSE /\ campPc' = "loop"
                     /\ campSummary' = campSummary
                     /\ campaignIds' = [campaignIds EXCEPT !.sent = ids]

\* iteration i up to the await: makeCall runs its checks and either returns
\* at once or submits the request to the provider
CampaignDispatch ==
  /\ campPc = "loop"
  /\ campIndex <= Len(campContacts)
  /\ LET i   == campIndex
         pre == BeforeFetch(campConfig, campDnc, campContacts[i],
                            CallOptionsOf(campOptions), envDryRun, now)
         gone == IF i > 1 THEN Append(gaps, waited) ELSE gaps
         ids == IF pre.fetch
                THEN Append(campaignIds.sent,
                            CampaignIdOf(campOptions, SinceStart(gone)))
                ELSE campaignIds.sent
     IN /\ dispatchCount' = [dispatchCount EXCEPT ![i] = @ + 1]
        /\ gaps' = gone
        /\ IF pre.fetch
           THEN /\ providerCalls' = [providerCalls EXCEPT ![i] = @ + 1]
                /\ inFlight' = inFlight + 1
                /\ campPc' = AwaitMakeCall
                /\ campaignIds' = [campaignIds EXCEPT !.sent = ids]
                /\ UNCHANGED <<campIndex, campResults, successful, failed,
                               campSummary, waited>>
           ELSE /\ Continue(i, pre.result, ids, SinceStart(gone))
                /\ UNCHANGED <<providerCalls, inFlight>>
  /\ ret' = NoReturn
  /\ UNCHANGED <<now, envDryRun, csvVars, mailVars, svcVars, whVars, campContacts, campOptions,
                 campConfig, campDnc, cancelRequested>>

\* the provider answers the request in flight (or the fetch rejects):
\* makeCall returns and the iteration goes on
ProviderResponse(outcome) ==
  /\ inFlight > 0
  /\ inFlight' = inFlight - 1
  /\ Continue(campIndex, AfterFetch(outcome), campaignIds.sent,
              SinceStart(gaps))
  /\ ret' = NoReturn
  /\ UNCHANGED <<now, envDryRun, csvVars, mailVars, svcVars, whVars, campContacts, campOptions,
                 campConfig, campDnc, dispatchCount, providerCalls, gaps,
                 cancelRequested>>

\* instants, in milliseconds after the return of makeCall, at which the
\* run is observed while it waits for the timer
TimeSamples == {50, 100, 4999, 5000, 6000}

\* time passes while the run is suspended on setTimeout
Elapse ==
  /\ campPc = "delay"
  /\ waited' \in {t \in TimeSamples : t > waited}
  /\ ret' = NoReturn
  /\ UNCHANGED <<now, envDryRun, csvVars, mailVars, svcVars, whVars, campPc, campContacts,
                 campOptions, campConfig, campDnc, campIndex, campResults,
                 successful, failed, inFlight, dispatchCount, providerCalls,
                 campSummary, gaps, cancelRequested, campaignIds>>

\* setTimeout(resolve, delay): the callback runs once delay has elapsed
TimerFires(elapsed, delay) == elapsed >= delay

\* the timer of the pacing delay fires
DelayElapsed ==
  /\ campPc = "delay"
  /\ TimerFires(waited, CampaignDelay(campOptions))
  /\ campIndex' = NextIndex(campIndex, NoResult)
  /\ campPc' = "loop"
  /\ ret' = NoReturn
  /\ UNCHANGED <<now, envDryRun, csvVars, mailVars, svcVars, whVars, campContacts, campOptions,
                 campConfig, campDnc, campResults, successful, failed,
                 inFlight, dispatchCount, providerCalls, campSummary, waited,
                 gaps, cancelRequested, campaignIds>>

\* the caller of a run in progress asks for it to stop; startCallCampaign
\* takes no signal and reads no flag, so the request reaches no statement
\* of the run
RequestCancel ==
  /\ campPc \in {"loop", AwaitMakeCall, "delay"}
  /\ ~cancelRequested
  /\ cancelRequested' = TRUE
  /\ ret' = NoReturn
  /\ UNCHANGED <<now, envDryRun, csvVars, mailVars, svcVars, whVars, campPc, campContacts,
                 campOptions, campConfig, campDnc, campIndex, campResults,
                 successful, failed, inFlight, dispatchCount, providerCalls,
                 campSummary, waited, gaps, campaignIds>>

(***************************************************************************)
(* Specifications                                                          *)
(***************************************************************************)
\* the long-lived service and the webhook server of one process
Next ==
  \/ Tick
  \/ \E p \in {PhoneADashed, PhoneInvalid} : AddToDoNotCallList(p)
  \/ \E c \in Contacts, o \in CallOptions : MakeCall(c, o)
  \/ \E d \in WebhookPayloads : Webhook(d, HealthyFs)

Spec == Init /\ [][Next]_vars

\* one campaign run
NextCampaign ==
  \/ Tick
  \/ \E cs \in ContactLists, o \in CampaignOptions : StartCallCampaign(cs, o)
  \/ CampaignDispatch
  \/ \E out \in FetchOutcomes : ProviderResponse(out)
  \/ Elapse
  \/ DelayElapsed

SpecCampaign == Init /\ [][NextCampaign]_vars

\* '12345678901', PhoneA with country code and without the plus sign
PhoneAPlain ==
  <<"1", "2", "3", "4", "5", "6", "7", "8", "9", "0", "1">>

\* '(987) 654-3210', PhoneB as written in a contact file
PhoneBWritten ==
  <<"(", "9", "8", "7", ")", " ", "6", "5", "4", "-", "3", "2", "1", "0">>

CheckedPhones ==
  {PhoneA, PhoneADashed, PhoneAPlain, PhoneB, PhoneBWritten, PhoneInvalid}

CheckedLists ==
  {<<>>, <<PhoneA>>, <<PhoneADashed>>, <<PhoneB, PhoneA>>, <<PhoneBWritten>>}

\* blandAIService.isOnDoNotCallList(phoneNumber, doNotCallList)
CheckDoNotCall(phoneNumber, doNotCallList) ==
  /\ ret' = [op |-> "isOnDoNotCallList", phoneNumber |-> phoneNumber,
             doNotCallList |-> doNotCallList,
             value |-> isOnDoNotCallList(svcDnc, phoneNumber, doNotCallList)]
  /\ UNCHANGED <<now, envDryRun, csvVars, mailVars, svcVars, whVars, campVars>>

\* webhooks for the calls of the service: an id it may track, an id it
\* never had, no call_id; a final status or one in between
TrackingPayloads ==
  {[NoPayload EXCEPT !.call_id = c, !.status = st] :
     c \in TrackedCallIds \cup {"call-9", ""},
     st \in FinalStatuses \cup {"in-progress"}}

\* blandAIService.processWebhookData(webhookData)
ProcessWebhookData(webhookData) ==
  LET after == processWebhookData(activeCalls, callHistory, webhookData)
  IN /\ activeCalls' = after.active
     /\ callHistory' = after.history
     /\ ret' = [op |-> "processWebhookData", webhookData |-> webhookData,
                error |-> after.error]
     /\ UNCHANGED <<now, envDryRun, csvVars, mailVars, svcConfig, svcDnc,
                    whVars, campVars>>

NextCallTracking ==
  \/ \E c \in Contacts, o \in CallOptions :
       MakeCallAnswered(c, o, FreshOutcomes)
  \/ \E d \in TrackingPayloads : ProcessWebhookData(d)

\* the long-lived service with a provider whose call ids are distinct
SpecCallTracking == Init /\ [][NextCallTracking]_vars

(***************************************************************************)
(* EmailService.sendSingle                                                 *)
(***************************************************************************)
\* the largest maxRetries option a caller passes
MaxRetryOption == 2

\* options.maxRetries: absent or 0 (0 here), or a count of attempts
RetryOptions == 0..MaxRetryOption

\* options.retryDelay: absent (0 here) or milliseconds
RetryDelays == {0, 100}

\* const maxRetries = options.maxRetries || 3
MaxRetriesOf(option) == IF option = 0 THEN 3 ELSE option

\* const retryDelay = options.retryDelay || 1000
RetryDelayOf(option) == IF option = 0 THEN 1000 ELSE option

\* what client.messages.create does: it resolves, or rejects with an error
\* that has a status or has none (status 0 here)
MailOutcomes ==
  {[ok |-> TRUE, status |-> 200]}
  \cup {[ok |-> FALSE, status |-> st] :
          st \in {0, 400, 401, 403, 404, 429, 500, 503}}

\* variant: every error but 400, 401 and 403 is retried
RetriesAnyOtherError(status, attempt, maxRetries) ==
  status \notin {400, 401, 403} /\ attempt < maxRetries

\* the catch block goes on to a further attempt: not after 400, 401 or
\* 403, and only before the last attempt after 429 or a status >= 500
Retries(status, attempt, maxRetries) ==
  /\ status \notin {400, 401, 403}
  /\ attempt < maxRetries
  /\ (status = 429 \/ status >= 500)

\* the value returned after the loop; reading lastError.message throws a
\* TypeError when the loop made no attempt
FailureAfterLoop(outcomes, maxRetries) ==
  IF outcomes = <<>>
  THEN [kind |-> "thrown"]
  ELSE [kind |-> "value", success |-> FALSE,
        status |-> outcomes[Len(outcomes)].status, attempts |-> maxRetries]

\* sendSingle(emailData, options) up to the first await
SendSingle(maxRetriesOption, retryDelayOption) ==
  LET maxRetries == MaxRetriesOf(maxRetriesOption)
  IN /\ mail.pc = "idle"
     /\ mail' = IF 1 <= maxRetries
                THEN [pc |-> "create", maxRetries |-> maxRetries,
                      retryDelay |-> RetryDelayOf(retryDelayOption),
                      attempt |-> 1, outcomes |-> <<>>, waits |-> <<>>,
                      result |-> [kind |-> "none"]]
                ELSE [pc |-> "done", maxRetries |-> maxRetries,
                      retryDelay |-> RetryDelayOf(retryDelayOption),
                      attempt |-> 1, outcomes |-> <<>>, waits |-> <<>>,
                      result |-> FailureAfterLoop(<<>>, maxRetries)]
     /\ ret' = NoReturn
     /\ UNCHANGED <<now, envDryRun, svcVars, whVars, campVars, csvVars>>

\* client.messages.create settles: return the success, or the catch block
MailProviderAnswers(outcome) ==
  LET outcomes == Append(mail.outcomes, outcome)
  IN /\ mail.pc = "create"
     /\ mail' =
          IF outcome.ok
          THEN [mail EXCEPT !.pc = "done", !.outcomes = outcomes,
                            !.result = [kind |-> "value", success |-> TRUE,
                                        status |-> 200,
                                        attempts |-> mail.attempt]]
          ELSE IF Retries(outcome.status, mail.attempt, mail.maxRetries)
          THEN [mail EXCEPT !.pc = "backoff", !.outcomes = outcomes,
                            !.waits = Append(@, mail.retryDelay
                                                  * mail.attempt)]
          ELSE [mail EXCEPT !.pc = "done", !.outcomes = outcomes,
                            !.result =
                              FailureAfterLoop(outcomes, mail.maxRetries)]
     /\ ret' = NoReturn
     /\ UNCHANGED <<now, envDryRun, svcVars, whVars, campVars, csvVars>>

\* the timer of the retry delay fires: continue with the next attempt
RetryDelayElapsed ==
  /\ mail.pc = "backoff"
  /\ mail' = [mail EXCEPT !.pc = "create", !.attempt = @ + 1]
  /\ ret' = NoReturn
  /\ UNCHANGED <<now, envDryRun, svcVars, whVars, campVars, csvVars>>

NextMail ==
  \/ \E m \in RetryOptions, d \in RetryDelays : SendSingle(m, d)
  \/ \E outcome \in MailOutcomes : MailProviderAnswers(outcome)
  \/ RetryDelayElapsed

\* one campaign run whose caller may ask for it to stop
NextCancel ==
  \/ NextCampaign
  \/ RequestCancel

SpecCancel == Init /\ [][NextCancel]_vars

\* one campaign run in which time passes and every timer the run has set
\* fires. The provider is free never to answer: makeCall sets no timer on
\* its fetch, so no step of the program is enabled while it awaits
SpecSilentProvider ==
  /\ Init
  /\ [][NextCampaign]_vars
  /\ WF_vars(Elapse)
  /\ WF_vars(DelayElapsed)

\* isWithinCallHours over configurations and instants
InitHours ==
  /\ now \in Instants
  /\ envDryRun = FALSE
  /\ svcConfig \in HoursConfigs
  /\ ret = NoReturn
  /\ InitService
  /\ InitLedger
  /\ InitWebhook
  /\ InitCampaign

LiveOptions == [dryRun |-> FALSE, doNotCallList |-> <<>>]

NextHours ==
  \/ CheckCallHours
  \/ MakeCall([Name |-> "John Doe", PhoneNumber |-> PhoneA], LiveOptions)

SpecHours == InitHours /\ [][NextHours]_vars

\* the log after n earlier events, numbered by their duration
PriorEntries(n) ==
  [k \in 1..n |->
     LogEntry(processWebhook([NoPayload EXCEPT !.duration = k]), "", Null)]

\* the webhook server alone, its log new, or holding one entry or LogCap
\* entries from earlier requests
InitWebhookServer ==
  /\ now = Tuesday1700
  /\ envDryRun = FALSE
  /\ svcConfig = NewConfig(NoOptions)
  /\ ret = NoReturn
  /\ InitService
  /\ InitLedger
  /\ whConfig \in [calendlyLink : BOOLEAN]
  /\ callLogs \in {PriorEntries(0), PriorEntries(1), PriorEntries(LogCap)}
  /\ logFile = callLogs
  /\ arrivals = callLogs
  /\ dncFile = <<>>
  /\ cleared = 0
  /\ requests = 0
  /\ handlers = [h \in Handlers |-> IdleHandler]
  /\ InitCampaign

NextWebhookServer ==
  \/ \E d \in IngestPayloads, fs \in FsOutcomes : Webhook(d, fs)
  \/ DeleteLogs
  \/ GetStats

SpecWebhookServer == InitWebhookServer /\ [][NextWebhookServer]_vars

\* requests handled concurrently by a new webhook server
InitHandlers ==
  /\ now = Tuesday1700
  /\ envDryRun = FALSE
  /\ svcConfig = NewConfig(NoOptions)
  /\ ret = NoReturn
  /\ InitService
  /\ InitLedger
  /\ InitWebhook
  /\ InitCampaign

NextHandlers ==
  \/ \E h \in Handlers, d \in HandlerPayloads : Receive(h, d)
  \/ \E h \in Handlers : Parsed(h)
  \/ \E h \in Handlers : LogAndRoute(h, HealthyFs)
  \/ \E h \in Handlers : Respond(h)
  \/ GetStats

SpecHandlers == InitHandlers /\ [][NextHandlers]_vars

\* the do-not-call check of one service and the numbers added to its set
NextDoNotCallCheck ==
  \/ \E q \in CheckedPhones : AddToDoNotCallList(q)
  \/ \E p \in CheckedPhones, list \in CheckedLists : CheckDoNotCall(p, list)

SpecDoNotCallCheck == InitHandlers /\ [][NextDoNotCallCheck]_vars

\* sendSingle calls, one at a time
SpecMail == InitHandlers /\ [][NextMail]_vars

\* transcripts for extractUserChoice
Transcripts ==
  {
   \* ''
   <<>>,
   \* 'Pressed 1'
   <<"P", "r", "e", "s", "s", "e", "d", " ", "1">>,
   \* 'pressed 2'
   <<"p", "r", "e", "s", "s", "e", "d", " ", "2">>,
   \* 'PRESS 1'
   <<"P", "R", "E", "S", "S", " ", "1">>,
   \* 'press  2'
   <<"p", "r", "e", "s", "s", " ", " ", "2">>,
   \* 'press1'
   <<"p", "r", "e", "s", "s", "1">>,
   \* 'pressed2'
   <<"p", "r", "e", "s", "s", "e", "d", "2">>,
   \* 'press one'
   <<"p", "r", "e", "s", "s", " ", "o", "n", "e">>,
   \* 'Pressed Two'
   <<"P", "r", "e", "s", "s", "e", "d", " ", "T", "w", "o">>,
   \* 'one'
   <<"o", "n", "e">>,
   \* 'two'
   <<"t", "w", "o">>,
   \* 'my phone'
   <<"m", "y", " ", "p", "h", "o", "n", "e">>,
   \* 'network down'
   <<"n", "e", "t", "w", "o", "r", "k", " ", "d", "o", "w", "n">>,
   \* 'no answer'
   <<"n", "o", " ", "a", "n", "s", "w", "e", "r">>,
   \* 'press 3'
   <<"p", "r", "e", "s", "s", " ", "3">>,
   \* 'pressed'
   <<"p", "r", "e", "s", "s", "e", "d">>,
   \* '1'
   <<"1">>,
   \* '2'
   <<"2">>,
   \* 'press 1 or press 2'
   <<"p", "r", "e", "s", "s", " ", "1", " ", "o", "r", " ", "p", "r", "e",
     "s", "s", " ", "2">>,
   \* 'press 2 not 1'
   <<"p", "r", "e", "s", "s", " ", "2", " ", "n", "o", "t", " ", "1">>,
   \* 'pressed 2, no one else'
   <<"p", "r", "e", "s", "s", "e", "d", " ", "2", ",", " ", "n", "o", " ",
     "o", "n", "e", " ", "e", "l", "s", "e">>,
   \* 'TWO'
   <<"T", "W", "O">>,
   \* 'I will press 2'
   <<"I", " ", "w", "i", "l", "l", " ", "p", "r", "e", "s", "s", " ", "2">>,
   \* 'Some other text'
   <<"S", "o", "m", "e", " ", "o", "t", "h", "e", "r", " ", "t", "e", "x",
     "t">>,
   \* 'not sure'
   <<"n", "o", "t", " ", "s", "u", "r", "e">>,
   \* 'express 2'
   <<"e", "x", "p", "r", "e", "s", "s", " ", "2">>,
   \* 'pressed ONE'
   <<"p", "r", "e", "s", "s", "e", "d", " ", "O", "N", "E">>
  }

\* user_input absent, a listed choice, or something else
UserInputs == {"", "1", "2", "3"}

ClassifierInputs ==
  {[NoPayload EXCEPT !.user_input = u, !.transcript = t] :
     u \in UserInputs, t \in Transcripts}

\* WebhookServer.extractUserChoice(webhookData)
ExtractUserChoice(data) ==
  /\ ret' = [op |-> "extractUserChoice", data |-> data,
             value |-> extractUserChoice(data)]
  /\ UNCHANGED <<now, envDryRun, csvVars, mailVars, svcVars, whVars, campVars>>

NextClassifier == \E d \in ClassifierInputs : ExtractUserChoice(d)

SpecClassifier == InitHandlers /\ [][NextClassifier]_vars

\* opt-out events, two of them for one number written in two ways
OptOutPayloads ==
  {[NoPayload EXCEPT !.user_input = "2", !.phone_number = PhoneA],
   [NoPayload EXCEPT !.user_input = "2", !.phone_number = PhoneADashed],
   [NoPayload EXCEPT !.user_input = "2", !.metadata_phone = PhoneB]}

\* the do-not-call file write of a request succeeds or throws
DoNotCallFsOutcomes == {HealthyFs, [HealthyFs EXCEPT !.dnc = FALSE]}

\* the two do-not-call lists: the set of the long-lived BlandAIService and
\* the file the webhook server writes
NextDoNotCall ==
  \/ \E p \in {PhoneA, PhoneADashed, PhoneB} : AddToDoNotCallList(p)
  \/ \E h \in Handlers, d \in OptOutPayloads : Receive(h, d)
  \/ \E h \in Handlers : Parsed(h)
  \/ \E h \in Handlers, fs \in DoNotCallFsOutcomes : LogAndRoute(h, fs)
  \/ \E h \in Handlers : Respond(h)

SpecDoNotCall == InitHandlers /\ [][NextDoNotCall]_vars

(***************************************************************************)
(* csv-status-tracker: the status columns of the contact CSV file          *)
(***************************************************************************)

STATUS_COLUMNS ==
  [EMAIL_STATUS |-> "EmailStatus", EMAIL_NOTES |-> "EmailNotes",
   VOICE_STATUS |-> "VoiceStatus", VOICE_NOTES |-> "VoiceNotes",
   LAST_UPDATED |-> "LastUpdated"]

\* headers.includes(column)
Includes(headers, column) == \E i \in 1..Len(headers) : headers[i] = column

\* variant: only the email status column is looked for
hasStatusColumnsEmailOnly(file) ==
  Includes(file.headers, STATUS_COLUMNS.EMAIL_STATUS)

\* EmailStatus, VoiceStatus and LastUpdated are among the headers
hasStatusColumns(file) ==
  /\ Includes(file.headers, STATUS_COLUMNS.EMAIL_STATUS)
  /\ Includes(file.headers, STATUS_COLUMNS.VOICE_STATUS)
  /\ Includes(file.headers, STATUS_COLUMNS.LAST_UPDATED)

ShorterOf(a, b) == IF a < b THEN a ELSE b

\* the row objects csv-parser yields: the cell at position i under the
\* header at position i, keys in header order; a line with fewer cells
\* than there are headers yields an object without the later keys
readCSVData(file) ==
  [k \in 1..Len(file.rows) |->
     [i \in 1..ShorterOf(Len(file.headers), Len(file.rows[k])) |->
        [key |-> file.headers[i], value |-> file.rows[k][i]]]]

\* Object.keys(row)
Keys(row) == [i \in 1..Len(row) |-> row[i].key]

\* row[key]; an absent key reads undefined, which csv-writer writes as ''
Get(row, key) ==
  IF \E i \in 1..Len(row) : row[i].key = key
  THEN row[CHOOSE i \in 1..Len(row) : row[i].key = key].value
  ELSE ""

\* row[key] = value: in place for a key the object has, else a new last key
Put(row, key, value) ==
  IF \E i \in 1..Len(row) : row[i].key = key
  THEN [i \in 1..Len(row) |->
          IF row[i].key = key THEN [key |-> key, value |-> value] ELSE row[i]]
  ELSE Append(row, [key |-> key, value |-> value])

\* updatedRow[column] = value if the update names a value
PutIfGiven(row, column, value) ==
  IF value # "" THEN Put(row, column, value) ELSE row

\* variant: the keys are compared without asking whether the update has them
shouldUpdateUnguarded(row, statusUpdate) ==
  \/ Get(row, "Email") = statusUpdate.email
  \/ Get(row, "PhoneNumber") = statusUpdate.phoneNumber

\* the row is the contact: its Email is the email of the update, or its
\* PhoneNumber the phoneNumber of the update
shouldUpdate(row, statusUpdate) ==
  \/ statusUpdate.email # "" /\ Get(row, "Email") = statusUpdate.email
  \/ /\ statusUpdate.phoneNumber # ""
     /\ Get(row, "PhoneNumber") = statusUpdate.phoneNumber

\* the row with the statuses and notes of the update and a new time stamp
UpdatedRow(row, statusUpdate, stamp) ==
  Put(PutIfGiven(PutIfGiven(PutIfGiven(PutIfGiven(row,
        STATUS_COLUMNS.EMAIL_STATUS, statusUpdate.emailStatus),
        STATUS_COLUMNS.EMAIL_NOTES, statusUpdate.emailNotes),
        STATUS_COLUMNS.VOICE_STATUS, statusUpdate.voiceStatus),
        STATUS_COLUMNS.VOICE_NOTES, statusUpdate.voiceNotes),
      STATUS_COLUMNS.LAST_UPDATED, stamp)

\* data.map(row => shouldUpdate ? updatedRow : row)
UpdatedData(data, statusUpdate, stamp) ==
  [k \in 1..Len(data) |->
     IF shouldUpdate(data[k], statusUpdate)
     THEN UpdatedRow(data[k], statusUpdate, stamp)
     ELSE data[k]]

\* csv-writer: the header line, then per record its value under each header
writeCSVData(data, headers) ==
  [headers |-> headers,
   rows |-> [k \in 1..Len(data) |->
               [i \in 1..Len(headers) |-> Get(data[k], headers[i])]]]

NoStatusColumnsError ==
  "CSV file does not have required status columns. Run addStatusColumns first."

\* updateCSVStatus(csvPath, statusUpdate): the file it leaves and its result
updateCSVStatus(file, statusUpdate, stamp) ==
  LET data == readCSVData(file)
      updatedData == UpdatedData(data, statusUpdate, stamp)
      contactFound ==
        \E k \in 1..Len(data) : shouldUpdate(data[k], statusUpdate)
  IN IF ~hasStatusColumns(file)
     THEN [file |-> file,
           result |-> [success |-> FALSE, error |-> NoStatusColumnsError]]
     ELSE IF Len(data) = 0
     THEN [file |-> file,
           result |-> [success |-> FALSE,
                       error |-> "No data found in CSV file"]]
     ELSE IF ~contactFound
     THEN [file |-> file,
           result |-> [success |-> TRUE, updated |-> FALSE,
                       message |-> "Contact not found in CSV file"]]
     ELSE [file |-> writeCSVData(updatedData, Keys(updatedData[1])),
           result |-> [success |-> TRUE, updated |-> TRUE,
                       message |-> "Status updated successfully"]]

ContactHeaders == <<"Name", "Email", "PhoneNumber", "Company">>

StatusHeaders ==
  <<"EmailStatus", "EmailNotes", "VoiceStatus", "VoiceNotes", "LastUpdated">>

EarlierStamp == "2024-01-01T09:00:00.000Z"

\* what new Date().toISOString() returns at one call after another
Timestamps ==
  <<"2024-01-02T10:00:00.000Z", "2024-01-03T11:00:00.000Z",
    "2024-01-04T12:00:00.000Z", "2024-01-05T13:00:00.000Z">>

\* updateCSVStatus calls of one run
MaxUpdates == 2

JohnDoe == <<"John Doe", "john@example.com", "+1234567890", "Acme Corp">>

JaneSmith == <<"Jane Smith", "jane@example.com", "+1987654321", "Tech Inc">>

\* a contact without an email address
PhoneOnly == <<"Sam Lee", "", "+1555000111", "Solo LLC">>

NoStatus == <<"", "", "", "", "">>

EarlierStatus == <<"sent", "intro mail", "voicemail", "left message",
                   EarlierStamp>>

\* the CSV files updateCSVStatus is run on
Ledgers ==
  {
   \* the contact file after addStatusColumns, with or without statuses
   [headers |-> ContactHeaders \o StatusHeaders,
    rows |-> <<JohnDoe \o NoStatus, JaneSmith \o EarlierStatus>>],
   [headers |-> ContactHeaders \o StatusHeaders,
    rows |-> <<PhoneOnly \o NoStatus, JohnDoe \o EarlierStatus>>],
   \* the contact file without status columns
   [headers |-> ContactHeaders, rows |-> <<JohnDoe, JaneSmith>>],
   \* a file with the three columns hasStatusColumns looks for, no notes
   [headers |-> ContactHeaders \o <<"EmailStatus", "VoiceStatus",
                                    "LastUpdated">>,
    rows |-> <<JohnDoe \o <<"", "", "">>,
               JaneSmith \o <<"sent", "voicemail", EarlierStamp>>>>],
   \* a file with the email status columns only
   [headers |-> ContactHeaders \o <<"EmailStatus", "EmailNotes">>,
    rows |-> <<JohnDoe \o <<"", "">>, JaneSmith \o <<"sent", "intro mail">>>>],
   \* the status headers were added, the first line has no cells for them
   [headers |-> ContactHeaders \o StatusHeaders,
    rows |-> <<JohnDoe, JaneSmith \o EarlierStatus>>],
   \* a header line and no contact
   [headers |-> ContactHeaders \o StatusHeaders, rows |-> <<>>]
  }

\* whom the update is for: by email, by phone number, by both, by a key
\* that is in no file, by an email address in another letter case, by none
LookupKeys ==
  {[email |-> "john@example.com", phoneNumber |-> ""],
   [email |-> "", phoneNumber |-> "+1987654321"],
   [email |-> "john@example.com", phoneNumber |-> "+1987654321"],
   [email |-> "notfound@example.com", phoneNumber |-> ""],
   [email |-> "John@Example.com", phoneNumber |-> ""],
   [email |-> "", phoneNumber |-> "+1000000000"],
   [email |-> "", phoneNumber |-> ""]}

\* the statuses and notes an update names
StatusFields ==
  {[emailStatus |-> "opened", emailNotes |-> "", voiceStatus |-> "",
    voiceNotes |-> ""],
   [emailStatus |-> "replied", emailNotes |-> "asked for a demo",
    voiceStatus |-> "", voiceNotes |-> ""],
   [emailStatus |-> "", emailNotes |-> "", voiceStatus |-> "answered",
    voiceNotes |-> "interested"],
   [emailStatus |-> "opened", emailNotes |-> "asked for a demo",
    voiceStatus |-> "scheduled", voiceNotes |-> "interested"]}

StatusUpdates ==
  {[email |-> key.email, phoneNumber |-> key.phoneNumber,
    emailStatus |-> f.emailStatus, emailNotes |-> f.emailNotes,
    voiceStatus |-> f.voiceStatus, voiceNotes |-> f.voiceNotes] :
     key \in LookupKeys, f \in StatusFields}

\* await updateCSVStatus(csvPath, statusUpdate)
UpdateCSVStatus(statusUpdate) ==
  LET stamp == Timestamps[ShorterOf(updates + 1, Len(Timestamps))]
      done == updateCSVStatus(ledger, statusUpdate, stamp)
  IN /\ updates < MaxUpdates
     /\ updates' = updates + 1
     /\ ledger' = done.file
     /\ ret' = [op |-> "updateCSVStatus", before |-> ledger,
                statusUpdate |-> statusUpdate, stamp |-> stamp,
                result |-> done.result]
     /\ UNCHANGED <<now, envDryRun, svcVars, whVars, campVars, mailVars,
                    updaters>>

\* the updates of a batch: for John Doe by email, for Jane Smith by phone
BatchUpdates ==
  {u \in StatusUpdates :
     \/ u.email = "john@example.com" /\ u.phoneNumber = ""
     \/ u.email = "" /\ u.phoneNumber = "+1987654321"}

\* updateCSVStatus(csvPath, statusUpdate) is called and suspends in
\* hasStatusColumns, whose stream has not read the file yet
BeginUpdate(u, statusUpdate) ==
  /\ updaters[u].pc = "idle"
  /\ updaters' = [updaters EXCEPT ![u] = [IdleUpdater EXCEPT
                     !.pc = "hasStatusColumns",
                     !.statusUpdate = statusUpdate]]
  /\ ret' = NoReturn
  /\ UNCHANGED <<now, envDryRun, svcVars, whVars, campVars, mailVars,
                 ledger, updates>>

\* hasStatusColumns resolves with the header line the file has now; the
\* call returns the error or suspends in readCSVData
ColumnsChecked(u) ==
  /\ updaters[u].pc = "hasStatusColumns"
  /\ updaters' = [updaters EXCEPT ![u] =
       IF hasStatusColumns(ledger)
       THEN [@ EXCEPT !.pc = "readCSVData"]
       ELSE [@ EXCEPT !.pc = "done",
                      !.result = updateCSVStatus(ledger, @.statusUpdate,
                                                 Timestamps[u]).result]]
  /\ ret' = NoReturn
  /\ UNCHANGED <<now, envDryRun, svcVars, whVars, campVars, mailVars,
                 ledger, updates>>

\* readCSVData resolves with the rows the file has now; the call maps them
\* and returns, or suspends in writeCSVData with the records to write
DataRead(u) ==
  LET done == updateCSVStatus(ledger, updaters[u].statusUpdate,
                              Timestamps[u])
      writes == done.result.success /\ done.result.updated
  IN /\ updaters[u].pc = "readCSVData"
     /\ updaters' = [updaters EXCEPT ![u] =
          IF writes
          THEN [@ EXCEPT !.pc = "writeCSVData", !.pending = done.file]
          ELSE [@ EXCEPT !.pc = "done", !.result = done.result]]
     /\ ret' = NoReturn
     /\ UNCHANGED <<now, envDryRun, svcVars, whVars, campVars, mailVars,
                    ledger, updates>>

\* writeCSVData replaces the file by the records of the call, which
\* returns success
DataWritten(u) ==
  /\ updaters[u].pc = "writeCSVData"
  /\ ledger' = updaters[u].pending
  /\ updaters' = [updaters EXCEPT ![u] =
       [@ EXCEPT !.pc = "done",
                 !.result = [success |-> TRUE, updated |-> TRUE,
                             message |-> "Status updated successfully"]]]
  /\ ret' = NoReturn
  /\ UNCHANGED <<now, envDryRun, svcVars, whVars, campVars, mailVars,
                 updates>>

InitLedgers ==
  /\ now = Tuesday1700
  /\ envDryRun = FALSE
  /\ svcConfig = NewConfig(NoOptions)
  /\ ret = NoReturn
  /\ svcDnc = NewDoNotCallList
  /\ activeCalls = {}
  /\ callHistory = <<>>
  /\ InitWebhook
  /\ InitCampaign
  /\ ledger \in Ledgers
  /\ updates = 0
  /\ updaters = [u \in Updaters |-> IdleUpdater]
  /\ mail = NoMail

NextLedger == \E u \in StatusUpdates : UpdateCSVStatus(u)

SpecLedger == InitLedgers /\ [][NextLedger]_vars

NextBatch ==
  \/ \E u \in Updaters, statusUpdate \in BatchUpdates :
       BeginUpdate(u, statusUpdate)
  \/ \E u \in Updaters : ColumnsChecked(u)
  \/ \E u \in Updaters : DataRead(u)
  \/ \E u \in Updaters : DataWritten(u)

\* the updateCSVStatus calls of one batch on one file, which sendBatchSms
\* starts without awaiting one before the next
SpecBatch == InitLedgers /\ [][NextBatch]_vars

(***************************************************************************)
(* Vocabulary of the properties, stated without the operators of the code  *)
(***************************************************************************)
Called == ret.op = "makeCall"

LiveMode == ~ret.options.dryRun /\ ~envDryRun

\* canonical form of a phone number: the digits, +1 in front of exactly ten
\* digits, + in front otherwise
Canonical(p) ==
  LET digits == SelectSeq(p, LAMBDA c : c \in Digits)
  IN IF Len(digits) = 10 THEN <<"+", "1">> \o digits ELSE <<"+">> \o digits

\* the callee is on the service's own set or on the caller-supplied list
CalleeOnDoNotCall ==
  \/ Canonical(ret.contact.PhoneNumber) \in svcDnc
  \/ \E i \in 1..Len(ret.options.doNotCallList) :
       ret.options.doNotCallList[i] = Canonical(ret.contact.PhoneNumber)

\* the webhook flow has recorded an opt-out for the number p
OptedOut(p) ==
  \E i \in 1..Len(dncFile) :
    Canonical(dncFile[i].phoneNumber) = Canonical(p)

\* a well-formed HH:MM value of the 24 hour clock
IsHHMM(s) ==
  /\ s # Null
  /\ Len(s) = 5
  /\ s[3] = ":"
  /\ \A i \in {1, 2, 4, 5} : s[i] \in Digits
  /\ DigitVal[s[1]] * 10 + DigitVal[s[2]] < 24
  /\ DigitVal[s[4]] < 6

MinutesOfHHMM(s) ==
  (DigitVal[s[1]] * 10 + DigitVal[s[2]]) * 60
    + DigitVal[s[4]] * 10 + DigitVal[s[5]]

\* minute of the week (from Sunday 00:00) of instant t in a known zone
LocalMinuteOfWeek(zone, t) ==
  (t.day * 1440 + t.minute + TimeZoneOffset[zone] + 10080) % 10080

LocalDay(zone, t) == LocalMinuteOfWeek(zone, t) \div 1440

LocalMinute(zone, t) == LocalMinuteOfWeek(zone, t) % 1440

WellConfigured(config) ==
  /\ config.timezone \in KnownTimeZones
  /\ IsHHMM(config.callHoursStart)
  /\ IsHHMM(config.callHoursEnd)

\* Monday to Friday and start <= minute of the day <= end, in the zone
AllowedByClock(config, t) ==
  /\ WellConfigured(config)
  /\ LocalDay(config.timezone, t) \in 1..5
  /\ MinutesOfHHMM(config.callHoursStart) <= LocalMinute(config.timezone, t)
  /\ LocalMinute(config.timezone, t) <= MinutesOfHHMM(config.callHoursEnd)

\* a call-hours value with no hour or no minute component, or with a
\* component that is not a number (an empty component reads as 0)
CannotParse(s) ==
  \/ s = Null
  \/ \A i \in 1..Len(s) : s[i] # ":"
  \/ LET k == CHOOSE i \in 1..Len(s) :
                s[i] = ":" /\ \A j \in 1..(i - 1) : s[j] # ":"
         rest == SubSeq(s, k + 1, Len(s))
         stop == IF \E i \in 1..Len(rest) : rest[i] = ":"
                 THEN (CHOOSE i \in 1..Len(rest) :
                         rest[i] = ":" /\ \A j \in 1..(i - 1) : rest[j] # ":")
                      - 1
                 ELSE Len(rest)
     IN \/ \E i \in 1..(k - 1) : s[i] \notin Digits
        \/ \E i \in 1..stop : rest[i] \notin Digits

Misconfigured(config) ==
  \/ config.timezone \notin KnownTimeZones
  \/ CannotParse(config.callHoursStart)
  \/ CannotParse(config.callHoursEnd)

OutsideHoursMessage == "Outside of allowed call hours"

DoNotCallMessage == "Phone number is on do-not-call list"

InvalidPhoneMessage == "Invalid phone number format"

OptedOutNeverReachesProvider ==
  (Called /\ OptedOut(ret.contact.PhoneNumber)) => ~ret.requested

\* C3 (as stated): a live makeCall outside the call hours (or on a weekend)
\* returns the failure 'Outside of allowed call hours' and sends no request.
OutsideHoursAlwaysThatMessage ==
  (Called /\ LiveMode /\ ~AllowedByClock(svcConfig, now)) =>
    /\ ~ret.requested
    /\ ~ret.result.success
    /\ ret.result.error = OutsideHoursMessage

\* C3 (amended): a live makeCall sends a request only when the clock is
\* within call hours; outside them the result is a failure and no request
\* is sent, and the failure is 'Outside of allowed call hours' when the
\* contact has a name and a valid phone number.
OutsideHoursNeverRequested ==
  /\ (Called /\ ret.requested) => AllowedByClock(svcConfig, now)
  /\ (Called /\ LiveMode /\ ~AllowedByClock(svcConfig, now)) =>
       /\ ~ret.requested
       /\ ~ret.result.success
       /\ (ret.contact.Name # "" /\ isValidPhoneNumber(ret.contact.PhoneNumber))
          => ret.result.error = OutsideHoursMessage

\* a live call to a valid contact on a Saturday inside 09:00-17:00 is denied
WeekendDenialSeen ==
  /\ Called
  /\ LiveMode
  /\ WellConfigured(svcConfig)
  /\ now = Saturday1700
  /\ ret.contact.PhoneNumber = PhoneB
  /\ ret.contact.Name # ""
  /\ ret.result.error = OutsideHoursMessage
  /\ ~ret.requested

InvalidPhoneRejectedFirst ==
  (Called /\ ~isValidPhoneNumber(ret.contact.PhoneNumber)
          /\ ret.contact.Name # "") =>
    /\ ~ret.requested
    /\ ~ret.result.success
    /\ ret.result.error = InvalidPhoneMessage

\* C7: a dry-run campaign sends no request to the provider for any contact
\* and its summary has total = number of contacts.
DryRunCampaignNeverRequests ==
  (campPc # "idle" /\ (campOptions.dryRun \/ envDryRun)) =>
    /\ inFlight = 0
    /\ \A i \in DOMAIN providerCalls : providerCalls[i] = 0
    /\ campPc = "done" =>
         /\ campSummary.total = Len(campContacts)
         /\ Len(campSummary.results) = Len(campContacts)

\* a dry run over two contacts, valid ones, in call hours, has finished
DryRunCampaignDoneSeen ==
  /\ campPc = "done"
  /\ campOptions.dryRun
  /\ ~envDryRun
  /\ Len(campContacts) = 2
  /\ \A i \in 1..2 : isValidPhoneNumber(campContacts[i].PhoneNumber)
  /\ AllowedByClock(campConfig, now)
  /\ campSummary.total = 2

\* C8: makeCall never throws; every failure is a result with success =
\* false, and the result of a non-2xx response carries its HTTP status.
NeverThrowsAndCarriesStatus ==
  Called =>
    /\ ~ret.result.thrown
    /\ (ret.requested /\ ~(ret.outcome.kind = "response" /\ ret.outcome.ok))
       => ~ret.result.success
    /\ (ret.requested /\ ret.outcome.kind = "response" /\ ~ret.outcome.ok)
       => ret.result.httpStatus = ret.outcome.status

\* C9: in one run every contact is dispatched exactly once; a provider
\* error is not retried, counts as failed, and the run goes on.
Failures(results) ==
  Cardinality({j \in 1..Len(results) : ~results[j].result.success})

DispatchedExactlyOnce ==
  /\ \A i \in DOMAIN dispatchCount :
       /\ dispatchCount[i] <= 1
       /\ providerCalls[i] <= 1
       /\ i <= Len(campResults) =>
            (dispatchCount[i] = 1 /\ campResults[i].contactIndex = i)
       /\ i > Len(campResults) + 1 => dispatchCount[i] = 0
  /\ failed = Failures(campResults)
  /\ campPc = "done" =>
       /\ Len(campResults) = Len(campContacts)
       /\ campSummary.failed = Failures(campResults)

\* a run of two contacts has finished after a provider error on the first
ProviderErrorThenNextSeen ==
  /\ campPc = "done"
  /\ Len(campContacts) = 2
  /\ campResults[1].result.httpStatus = 400
  /\ providerCalls[1] = 1
  /\ dispatchCount[2] = 1
  /\ campSummary.failed >= 1

\* C10: a run has at most one dispatch in flight, and the dispatch of
\* contact i+1 starts only after the dispatch of contact i has returned.
OneDispatchAtATime ==
  /\ inFlight <= 1
  /\ inFlight = 1 => Len(campResults) = campIndex - 1
  /\ \A i \in DOMAIN dispatchCount :
       (i > 1 /\ dispatchCount[i] > 0) => Len(campResults) >= i - 1

\* the request for the second contact is in flight, the first has returned
SecondInFlightSeen ==
  /\ inFlight = 1
  /\ campIndex = 2
  /\ Len(campResults) = 1
  /\ providerCalls[1] = 1
  /\ providerCalls[2] = 1

\* C11: after each processed contact successful + failed is the number of
\* results recorded; the final summary has total = number of contacts =
\* length of results = successful + failed, the results in contact order,
\* also when dispatches fail.
CampaignAccounting ==
  /\ successful + failed = Len(campResults)
  /\ successful =
       Cardinality({j \in 1..Len(campResults) : campResults[j].result.success})
  /\ \A j \in 1..Len(campResults) : campResults[j].contactIndex = j
  /\ campPc = "done" =>
       /\ campSummary.total = Len(campContacts)
       /\ Len(campSummary.results) = Len(campContacts)
       /\ campSummary.successful + campSummary.failed = campSummary.total
       /\ campSummary.successful = successful
       /\ campSummary.failed = failed
       /\ campSummary.results = campResults

\* a live run of two contacts has finished with one call queued and one
\* refused by the provider
PartialFailureSummarySeen ==
  /\ campPc = "done"
  /\ ~campOptions.dryRun
  /\ ~envDryRun
  /\ Len(campContacts) = 2
  /\ campSummary.successful = 1
  /\ campSummary.failed = 1
  /\ providerCalls[1] = 1
  /\ providerCalls[2] = 1

\* C12: between the return of one dispatch and the start of the next at
\* least the configured delay D elapses, whatever the outcome of the
\* dispatch, so a run over N > 1 contacts takes at least (N-1)*D.
RECURSIVE SumSeq(_)
SumSeq(q) == IF q = <<>> THEN 0 ELSE Head(q) + SumSeq(Tail(q))

ConfiguredDelay == IF campOptions.delay = 0 THEN 5000 ELSE campOptions.delay

PacingMinimumSpacing ==
  /\ \A k \in 1..Len(gaps) : gaps[k] >= ConfiguredDelay
  /\ \A i \in DOMAIN dispatchCount :
       (i > 1 /\ dispatchCount[i] > 0) => Len(gaps) >= i - 1
  /\ (campPc = "done" /\ Len(campContacts) > 1) =>
       /\ Len(gaps) = Len(campContacts) - 1
       /\ SumSeq(gaps) >= (Len(campContacts) - 1) * ConfiguredDelay

\* the second dispatch of a live run with delay 100 has started, 100 ms or
\* more after the first came back refused by the provider
PacedAfterFailureSeen ==
  /\ campOptions.delay = 100
  /\ ~campOptions.dryRun
  /\ ~envDryRun
  /\ Len(campResults) >= 1
  /\ campResults[1].result.httpStatus = 400
  /\ Len(gaps) = 1
  /\ gaps[1] >= 100
  /\ dispatchCount[2] = 1

\* C13: for the same ordered contact list a dry-run campaign and a live
\* campaign whose provider accepts every request produce summaries with the
\* same successful, failed and total counts.
EveryRequestAccepted ==
  \A i \in 1..Len(campResults) :
    providerCalls[i] = 1 => campResults[i].result.success

DryRunCountsEqualLive ==
  (/\ campPc = "done"
   /\ ~campOptions.dryRun
   /\ ~envDryRun
   /\ EveryRequestAccepted) =>
    LET rehearsal == CampaignCounts(campConfig, campDnc, campContacts,
                                    [campOptions EXCEPT !.dryRun = TRUE],
                                    envDryRun, now)
    IN /\ campSummary.successful = rehearsal.successful
       /\ campSummary.failed = rehearsal.failed
       /\ campSummary.total = rehearsal.total

\* a step that answers one POST /webhook request
WebhookAnswered == requests' = requests + 1 /\ ret'.op = "webhook"

\* C14: a webhook payload without call identifier is rejected with a
\* client-error response and adds no entry to the call log, neither in
\* memory nor in the durable file.
MissingCallIdRejected ==
  [][(/\ WebhookAnswered
      /\ ret'.data.json
      /\ ret'.data.call_id = "") =>
       /\ ret'.response.httpStatus \in 400..499
       /\ ~ret'.response.success
       /\ callLogs' = callLogs
       /\ logFile' = logFile]_vars

\* C15: after any sequence of logCallOutcome appends the in-memory log holds
\* at most 1000 entries and is the most recent min(n, 1000) of the n entries
\* appended (since the log was last emptied), in arrival order.
MostRecent(q, m) == SubSeq(q, Len(q) - m + 1, Len(q))

LogIsMostRecentThousand ==
  LET n == Len(arrivals) - cleared
  IN /\ Len(callLogs) <= 1000
     /\ callLogs = MostRecent(arrivals, IF n < 1000 THEN n ELSE 1000)

\* the 1001st event has arrived: 1000 entries remain, the first of them is
\* event number 2
OldestEvictedSeen ==
  /\ Len(arrivals) = 1001
  /\ cleared = 0
  /\ Len(callLogs) = 1000
  /\ callLogs[1].duration = 2
  /\ callLogs[1000] = arrivals[1001]

\* the latest step answered a request whose log file writes all succeeded
AppendPersisted ==
  /\ ret.op = "webhook"
  /\ ret.data.json
  /\ ret.fs.base
  /\ ret.fs.action

\* C16: the durable log is unbounded and append-only: after every
\* successful append the file contains every event appended so far, also
\* those evicted from the in-memory log and those logged before a
\* DELETE /logs.
DurableLogKeepsEverything ==
  AppendPersisted =>
    \A i \in 1..Len(arrivals) :
      \E j \in 1..Len(logFile) : logFile[j] = arrivals[i]

\* C17: when several webhook requests are handled concurrently no log entry
\* is lost: once all handlers have completed, the shared log and the
\* durable file hold an entry for every accepted event, under every
\* interleaving of the handlers.
Accepted(h) == handlers[h].pc = "done" /\ handlers[h].status = 200

EventsLike(k) ==
  Cardinality({h \in Handlers : Accepted(h) /\ handlers[h].data.duration = k})

EntriesLike(log, k, action) ==
  Cardinality({i \in 1..Len(log) :
                 log[i].duration = k /\ log[i].action = action})

OptOutsLike(k) ==
  Cardinality({h \in Handlers :
                 /\ Accepted(h)
                 /\ handlers[h].data.duration = k
                 /\ handlers[h].data.user_input = "2"
                 /\ handlers[h].data.phone_number # Null})

NoLogEntryLost ==
  (\A h \in Handlers : handlers[h].pc = "done") =>
    \A k \in Handlers :
      /\ EntriesLike(callLogs, k, "") = EventsLike(k)
      /\ EntriesLike(logFile, k, "") = EventsLike(k)
      /\ EntriesLike(callLogs, k, "opted_out") = OptOutsLike(k)
      /\ EntriesLike(logFile, k, "opted_out") = OptOutsLike(k)

\* all handlers have completed after two opt-out requests overlapped: the
\* one that logged first was answered last
OverlappingHandlersSeen ==
  /\ \A h \in Handlers : handlers[h].pc = "done"
  /\ Len(callLogs) = 4
  /\ Len(logFile) = 4
  /\ callLogs[1].duration = 1
  /\ callLogs[3].duration = 2
  /\ ret.op = "webhook"
  /\ ret.response.success
  /\ ret.data.duration = 1

\* C18: if persisting the log to the durable file fails while a webhook is
\* handled, the handler does not crash and its response reports the failure
\* (success = false).
LogWriteFailureSurfaced ==
  (/\ ret.op = "webhook"
   /\ ret.data.json
   /\ ~ret.fs.base) =>
    /\ ret.response.httpStatus \in {200, 500}
    /\ ~ret.response.success

\* C19: every webhook event accepted by POST /webhook adds at least one
\* entry to the call log before the response is sent, whatever its
\* classification, so an unclear event is observable in the log.
EveryAcceptedEventLogged ==
  [][(WebhookAnswered /\ ret'.response.success) =>
       /\ Len(arrivals') > Len(arrivals)
       /\ \E i \in 1..Len(callLogs') :
            /\ i >= Len(callLogs') - 1
            /\ callLogs'[i].action = ""
            /\ callLogs'[i].callId = ret'.data.call_id
            /\ callLogs'[i].duration = ret'.data.duration]_vars

\* an event without choice has been accepted and is the last log entry
UnclearEventLoggedSeen ==
  /\ ret.op = "webhook"
  /\ ret.response.success
  /\ ret.data.call_id = "call-1"
  /\ ret.data.user_input = ""
  /\ ret.data.transcript = <<>>
  /\ Len(callLogs) >= 1
  /\ callLogs[Len(callLogs)].userChoice = ""
  /\ callLogs[Len(callLogs)].action = ""
  /\ callLogs[Len(callLogs)].callId = "call-1"

\* C20: for every event classified as choice '2' the action router appends
\* a do-not-call entry for the contact's phone number and logs an
\* 'opted_out' audit entry (stated for requests whose file operations all
\* succeed).
ChoiceTwoAlwaysOptsOut ==
  [][(/\ WebhookAnswered
      /\ ret'.data.json
      /\ ret'.fs = HealthyFs
      /\ extractUserChoice(ret'.data) = "2") =>
       /\ Len(dncFile') = Len(dncFile) + 1
       /\ dncFile'[Len(dncFile')].callId = ret'.data.call_id
       /\ Len(callLogs') >= 1
       /\ callLogs'[Len(callLogs')].action = "opted_out"]_vars

\* the accepted opt-out events for the number p whose file operations all
\* succeeded, the entries of the do-not-call file for p, and the opted_out
\* audit entries for p
OptOutEventsFor(p) ==
  Cardinality({h \in Handlers :
     /\ Accepted(h)
     /\ handlers[h].fs = HealthyFs
     /\ handlers[h].data.user_input = "2"
     /\ \/ Canonical(handlers[h].data.phone_number) = p
        \/ /\ handlers[h].data.phone_number = Null
           /\ Canonical(handlers[h].data.metadata_phone) = p})

FileEntriesFor(p) ==
  Cardinality({i \in 1..Len(dncFile) : Canonical(dncFile[i].phoneNumber) = p})

AuditEntriesFor(p) ==
  Cardinality({i \in 1..Len(callLogs) :
     /\ callLogs[i].action = "opted_out"
     /\ Canonical(callLogs[i].phoneNumber) = p})

\* C21: adding the same phone number to the do-not-call list twice is
\* idempotent at the set level: the list then holds a single entry for the
\* number and the membership test passes, while the log records one
\* opted_out audit entry per add.
OptOutTwiceSingleEntry ==
  (/\ \A h \in Handlers : handlers[h].pc = "done"
   /\ \A h \in Handlers : handlers[h].fs = HealthyFs) =>
    \A p \in {Canonical(PhoneA), Canonical(PhoneB)} :
      OptOutEventsFor(p) >= 1 =>
        /\ OptedOut(p)
        /\ FileEntriesFor(p) = 1
        /\ AuditEntriesFor(p) = OptOutEventsFor(p)

\* C22: do-not-call membership is monotonic: a number once added to the
\* set of BlandAIService or to the persisted do-not-call file is removed
\* by no operation of the subsystem.
DoNotCallNeverRemoved ==
  [][/\ \A p \in svcDnc : p \in svcDnc'
     /\ Len(dncFile') >= Len(dncFile)
     /\ \A i \in 1..Len(dncFile) : dncFile'[i] = dncFile[i]]_vars

\* both lists hold two numbers, and the first number added to each is
\* still there
TwoNumbersListedSeen ==
  /\ Cardinality(svcDnc) = 2
  /\ Len(dncFile) = 2
  /\ OptedOut(dncFile[1].phoneNumber)
  /\ Canonical(dncFile[1].phoneNumber) # Canonical(dncFile[2].phoneNumber)

EventPhone(d) ==
  IF d.phone_number # Null THEN d.phone_number ELSE d.metadata_phone

StructuredChoiceWins ==
  (ret.op = "extractUserChoice" /\ ret.data.user_input # "") =>
    ret.value = ret.data.user_input

\* user_input '2' was returned for a transcript that says 'Pressed 1'
ConflictingTranscriptSeen ==
  /\ ret.op = "extractUserChoice"
  /\ ret.data.user_input = "2"
  /\ ret.data.transcript = <<"P", "r", "e", "s", "s", "e", "d", " ", "1">>
  /\ ret.value = "2"

\* the transcript t holds 'press' or 'pressed', any white space, and then
\* the digit or the word of a choice, in any letter case
PressPhrase(t, digit, word) ==
  LET low == ToLower(t)
  IN \E i \in 1..Len(low), j \in 1..(Len(low) + 1) :
       /\ MatchAt(low, i, <<"p", "r", "e", "s", "s">>)
       /\ j >= i + 5
       /\ \/ \A m \in (i + 5)..(j - 1) : low[m] = " "
          \/ /\ MatchAt(low, i + 5, <<"e", "d">>)
             /\ j >= i + 7
             /\ \A m \in (i + 7)..(j - 1) : low[m] = " "
       /\ (MatchAt(low, j, digit) \/ MatchAt(low, j, word))

ChoiceOnePhrase(t) == PressPhrase(t, <<"1">>, <<"o", "n", "e">>)

ChoiceTwoPhrase(t) == PressPhrase(t, <<"2">>, <<"t", "w", "o">>)

\* C25: with no structured user_input, extractUserChoice returns '1' only
\* if the transcript contains a 'press/pressed 1/one' phrase, '2' for every
\* transcript with a 'press/pressed 2/two' phrase and no choice-1 phrase,
\* and null when neither phrase occurs.
TranscriptChoiceByPhrase ==
  (ret.op = "extractUserChoice" /\ ret.data.user_input = "") =>
    LET t == ret.data.transcript
    IN /\ ret.value = "1" => ChoiceOnePhrase(t)
       /\ (ChoiceTwoPhrase(t) /\ ~ChoiceOnePhrase(t)) => ret.value = "2"
       /\ (~ChoiceOnePhrase(t) /\ ~ChoiceTwoPhrase(t)) => ret.value = ""

\* C26: every event produced by processWebhook and every entry of the call
\* log has userChoice null, '1' or '2', whatever the inbound payload.
UserChoiceInDomain ==
  /\ \A k \in 1..Len(callLogs) : callLogs[k].userChoice \in {"", "1", "2"}
  /\ ret.op = "webhook" =>
       processWebhook(ret.data).userChoice \in {"", "1", "2"}

\* the value the file holds for line k under the column, '' if none
Cell(file, k, column) ==
  IF \E i \in 1..Len(file.rows[k]) :
       i <= Len(file.headers) /\ file.headers[i] = column
  THEN file.rows[k][CHOOSE i \in 1..Len(file.rows[k]) :
                      i <= Len(file.headers) /\ file.headers[i] = column]
  ELSE ""

HasColumn(file, column) ==
  \E i \in 1..Len(file.headers) : file.headers[i] = column

\* line k of the file is the contact of the lookup key: the same email, or
\* the same phone number
LineMatches(file, k, key) ==
  \/ key.email # "" /\ Cell(file, k, "Email") = key.email
  \/ key.phoneNumber # "" /\ Cell(file, k, "PhoneNumber") = key.phoneNumber

SomeLineMatches(file, key) ==
  \E k \in 1..Len(file.rows) : LineMatches(file, k, key)

\* the columns an update may write: those it names a value for, and the
\* time stamp
NamedColumns(u) ==
  {"LastUpdated"}
    \cup (IF u.emailStatus # "" THEN {"EmailStatus"} ELSE {})
    \cup (IF u.emailNotes # "" THEN {"EmailNotes"} ELSE {})
    \cup (IF u.voiceStatus # "" THEN {"VoiceStatus"} ELSE {})
    \cup (IF u.voiceNotes # "" THEN {"VoiceNotes"} ELSE {})

\* the file has the columns an update needs
StatusColumnsPresent(file) ==
  /\ HasColumn(file, "EmailStatus")
  /\ HasColumn(file, "VoiceStatus")
  /\ HasColumn(file, "LastUpdated")

\* C27: an update of a matching row changes only the named status and notes
\* fields and LastUpdated of that row; every other column of that row and
\* every other row is written back as it was.
UpdateKeepsOtherCells ==
  (/\ ret.op = "updateCSVStatus"
   /\ StatusColumnsPresent(ret.before)
   /\ SomeLineMatches(ret.before, ret.statusUpdate)) =>
    /\ Len(ledger.rows) = Len(ret.before.rows)
    /\ \A k \in 1..Len(ret.before.rows) :
         \A i \in 1..Len(ret.before.headers) :
           LET column == ret.before.headers[i]
           IN (~(/\ LineMatches(ret.before, k, ret.statusUpdate)
                 /\ column \in NamedColumns(ret.statusUpdate))) =>
                /\ HasColumn(ledger, column)
                /\ Cell(ledger, k, column) = Cell(ret.before, k, column)

StatsNeverDivideByZero ==
  ret.op = "stats" =>
    LET answered ==
          Cardinality({k \in 1..Len(callLogs) :
                         callLogs[k].outcome = "answered"})
        completed ==
          Cardinality({k \in 1..Len(callLogs) :
                         callLogs[k].status = "completed"})
    IN /\ ret.stats.averageDuration.finite
       /\ ret.stats.answerRate.finite
       /\ ret.stats.conversionRate.finite
       /\ Len(callLogs) = 0 => ret.stats.answerRate.num = 0
       /\ answered = 0 => ret.stats.conversionRate.num = 0
       /\ completed = 0 => ret.stats.averageDuration.num = 0

\* statistics were read from a log that holds calls, none answered and none
\* completed
StatsWithoutAnswerSeen ==
  /\ ret.op = "stats"
  /\ Len(callLogs) > 0
  /\ \A k \in 1..Len(callLogs) :
       callLogs[k].outcome # "answered" /\ callLogs[k].status # "completed"
  /\ ret.stats.conversionRate.num = 0
  /\ ret.stats.averageDuration.num = 0

\* the durations of the completed entries among first..last, added up
RECURSIVE CompletedDuration(_, _, _)
CompletedDuration(log, first, last) ==
  IF first > last THEN 0
  ELSE IF first = last
  THEN IF log[first].status = "completed" THEN log[first].duration ELSE 0
  ELSE LET middle == (first + last) \div 2
       IN CompletedDuration(log, first, middle)
            + CompletedDuration(log, middle + 1, last)

CompletedCount(log) ==
  Cardinality({k \in 1..Len(log) : log[k].status = "completed"})

\* C31: averageDuration is the rounded mean duration over the completed
\* calls only: round(sum of the durations of the entries with status
\* 'completed' / number of such entries).
AverageOverCompletedOnly ==
  (ret.op = "stats" /\ CompletedCount(callLogs) > 0) =>
    /\ ret.stats.averageDuration.finite
    /\ ret.stats.averageDuration.den = 1
    /\ LET sum == CompletedDuration(callLogs, 1, Len(callLogs))
           n == CompletedCount(callLogs)
       IN ret.stats.averageDuration.num = (2 * sum + n) \div (2 * n)

\* the notifications accepted so far that carry the choice
AcceptedWithChoice(choice) ==
  Cardinality({h \in Handlers :
                 Accepted(h) /\ handlers[h].data.user_input = choice})

\* every request received so far has been answered, and the accepted ones
\* are notifications of different calls
DistinctCallsProcessed ==
  /\ \A h \in Handlers : handlers[h].pc \in {"idle", "done"}
  /\ \A g, h \in Handlers :
       (g # h /\ Accepted(g) /\ Accepted(h)) =>
         handlers[g].data # handlers[h].data

\* C32: after notifications for distinct calls have been processed through
\* POST /webhook the statistics count each call once: total is the number of
\* notifications, scheduledMeetings the number with choice '1', optedOut the
\* number with choice '2'.
StatsCountEachCallOnce ==
  (ret.op = "stats" /\ DistinctCallsProcessed) =>
    /\ ret.stats.counts.total = Cardinality({h \in Handlers : Accepted(h)})
    /\ ret.stats.counts.scheduledMeetings = AcceptedWithChoice("1")
    /\ ret.stats.counts.optedOut = AcceptedWithChoice("2")

\* C33: every provider call submission completes within a bounded wait, also
\* when the provider never responds: the makeCall that awaits the provider
\* returns, which the termination of the campaign run depends on.
SubmissionAlwaysReturns == (inFlight > 0) ~> (inFlight = 0)

\* C34: a campaign run is cancellable between iterations: once cancellation
\* is requested, the dispatch in flight runs to completion but no further
\* dispatch is started.
NoDispatchAfterCancel ==
  [][cancelRequested => dispatchCount' = dispatchCount]_vars

\* C35: isOnDoNotCallList(p, L) is true whenever L or the service's own set
\* contains a number with the same canonical form as p, however that number
\* is written in L.
ListedInAnySpelling ==
  (/\ ret.op = "isOnDoNotCallList"
   /\ \/ \E x \in svcDnc : Canonical(x) = Canonical(ret.phoneNumber)
      \/ \E i \in 1..Len(ret.doNotCallList) :
           Canonical(ret.doNotCallList[i]) = Canonical(ret.phoneNumber)) =>
    ret.value

\* the calls sendSingle has made to the mail provider so far
ProviderCallsMade ==
  Len(mail.outcomes) + (IF mail.pc = "create" THEN 1 ELSE 0)

\* C36: sendSingle is a bounded retry loop: at most maxRetries calls to the
\* mail provider, a further attempt only after a 429 or 5xx error, none
\* after a success, and a failure value instead of an exception when the
\* last attempt fails.
BoundedRetry ==
  /\ mail.pc # "idle" => ProviderCallsMade <= mail.maxRetries
  /\ \A k \in 1..(ProviderCallsMade - 1) :
       /\ ~mail.outcomes[k].ok
       /\ mail.outcomes[k].status = 429 \/ mail.outcomes[k].status \in 500..599
  /\ (/\ mail.pc = "done"
      /\ mail.outcomes # <<>>
      /\ ~mail.outcomes[Len(mail.outcomes)].ok) =>
       /\ mail.result.kind = "value"
       /\ ~mail.result.success
  /\ (/\ mail.pc = "done"
      /\ mail.outcomes # <<>>
      /\ mail.outcomes[Len(mail.outcomes)].ok) =>
       /\ mail.result.kind = "value"
       /\ mail.result.success

\* with the default of three attempts sendSingle gave up after 429, 500 and
\* 503 and returned the failure
RetriesExhaustedSeen ==
  /\ mail.pc = "done"
  /\ mail.maxRetries = 3
  /\ Len(mail.outcomes) = 3
  /\ mail.outcomes[1].status = 429
  /\ mail.outcomes[2].status = 500
  /\ mail.outcomes[3].status = 503
  /\ mail.result.kind = "value"
  /\ ~mail.result.success

\* C37: all call requests dispatched within one campaign run carry the same
\* campaignId, and it is the campaignId of the run's summary, also when the
\* caller supplies none and the run spans pacing delays.
OneCampaignIdPerRun ==
  /\ \A k \in 1..Len(campaignIds.sent) :
       campaignIds.sent[k] = campaignIds.sent[1]
  /\ (campPc = "done" /\ campaignIds.sent # <<>>) =>
       campaignIds.summary = campaignIds.sent[1]

\* the call ids of the entries of callHistory
InHistory == SeqToSet(callHistory)

\* the step is a makeCall that sent its request and returned success
SuccessfulLiveDispatch ==
  /\ ret'.op = "makeCall"
  /\ ret'.requested
  /\ ~IsDryRun(ret'.options, envDryRun)
  /\ ret'.result.success

\* the step is a processWebhookData for call id c with a final status
FinalWebhookFor(c) ==
  /\ ret'.op = "processWebhookData"
  /\ ret'.webhookData.call_id = c
  /\ ret'.webhookData.status \in FinalStatuses

\* C38: with distinct provider call ids, a call id enters activeCalls only
\* through a successful live dispatch, leaves it only on a webhook with
\* status completed, failed or no-answer, which appends it to callHistory,
\* where it then is exactly once; no id is in both; a webhook with a
\* missing or unknown call id changes neither.
CallTrackingLifecycle ==
  [][/\ \A c \in activeCalls' \ activeCalls :
          /\ SuccessfulLiveDispatch
          /\ ret'.result.callId = c
          /\ callHistory' = callHistory
     /\ \A c \in activeCalls \ activeCalls' :
          /\ FinalWebhookFor(c)
          /\ callHistory' = Append(callHistory, c)
     /\ callHistory' # callHistory =>
          \E c \in activeCalls \ activeCalls' :
            callHistory' = Append(callHistory, c)
     /\ (activeCalls \cap InHistory = {}) => (activeCalls' \cap InHistory' = {})
     /\ Cardinality(InHistory) = Len(callHistory) =>
          Cardinality(InHistory') = Len(callHistory')
     /\ (/\ ret'.op = "processWebhookData"
         /\ ret'.webhookData.call_id \notin activeCalls) =>
          /\ activeCalls' = activeCalls
          /\ callHistory' = callHistory]_vars

\* both calls have ended, a third webhook for the first call has changed
\* nothing, and the history holds each call once
RepeatedFinalWebhookSeen ==
  /\ activeCalls = {}
  /\ callHistory = <<"call-1", "call-2">>
  /\ ret.op = "processWebhookData"
  /\ ret.webhookData.call_id = "call-1"
  /\ ret.webhookData.status = "completed"

\* the latest step answered a request, and the write of the last
\* logCallOutcome of its handler succeeded
LastLogWriteSucceeded ==
  /\ ret.op = "webhook"
  /\ ret.data.json
  /\ LET processed == processWebhook(ret.data)
     IN IF /\ processed.userChoice # ""
           /\ ActionEntries(whConfig, processed, ret.fs.dnc) # <<>>
        THEN ret.fs.action
        ELSE ret.fs.base

\* C39: after every logCallOutcome whose file write succeeds the log file
\* equals the in-memory log, entry by entry, so it never holds more than
\* the 1000 most recent entries.
LogFileMirrorsMemory ==
  LastLogWriteSucceeded =>
    /\ logFile = callLogs
    /\ Len(logFile) <= LogCap

\* a full log was deleted and the next event's write left a file of one
\* entry
DeletedLogOverwrittenSeen ==
  /\ LastLogWriteSucceeded
  /\ cleared = LogCap
  /\ Len(arrivals) = LogCap + 1
  /\ logFile = <<arrivals[LogCap + 1]>>

\* the value update su gives for the column
GivenValue(su, column) ==
  IF column = "EmailStatus" THEN su.emailStatus
  ELSE IF column = "EmailNotes" THEN su.emailNotes
  ELSE IF column = "VoiceStatus" THEN su.voiceStatus
  ELSE su.voiceNotes

\* call u returned success after writing, and the file holds what it
\* wrote for its contact
UpdateInFile(u) ==
  LET su == updaters[u].statusUpdate
  IN \A k \in 1..Len(ledger.rows) :
       LineMatches(ledger, k, su) =>
         \A column \in NamedColumns(su) :
           Cell(ledger, k, column) =
             IF column = "LastUpdated" THEN Timestamps[u]
             ELSE GivenValue(su, column)

\* both calls of the batch have returned with updated: true after writing
\* every column they name, and they were for different contacts
BothUpdated ==
  /\ \A u \in Updaters :
       /\ updaters[u].pc = "done"
       /\ updaters[u].result.success
       /\ updaters[u].result.updated
       /\ \A column \in NamedColumns(updaters[u].statusUpdate) :
            HasColumn(updaters[u].pending, column)
  /\ \A k \in 1..Len(ledger.rows) :
       ~(/\ LineMatches(ledger, k, updaters[1].statusUpdate)
         /\ LineMatches(ledger, k, updaters[2].statusUpdate))

\* C40: two overlapping updateCSVStatus calls for different contacts of one
\* file both take effect: after both have completed the file reflects both
\* updates, however their reads and writes interleave.
NoLostUpdate ==
  BothUpdated => \A u \in Updaters : UpdateInFile(u)

====
